---- MODULE Spec2Model ----
(***************************************************************************)
(* Model of the heuristic extraction engine of the OCR-to-Q&A pipeline:    *)
(* entity_extractor.py (TechnicalEntityExtractor), table_reconstructor.py  *)
(* (TableReconstructor) and the parts of qa_generator.py that coerce       *)
(* entity values.                                                          *)
(*                                                                         *)
(* A Python str is a sequence of one-character strings.  The regular       *)
(* expressions of the source are written as syntax trees and run by a      *)
(* backtracking matcher with the priorities of Python's re module (greedy  *)
(* before shorter, left alternative before right), so that which groups    *)
(* a match captures is computed and not assumed.                           *)
(***************************************************************************)
EXTENDS Integers, Sequences, FiniteSets, TLC

VARIABLES
    patterns,       \* TechnicalEntityExtractor.patterns: category -> recognizer names
    header_patterns,\* TableReconstructor.header_patterns: header recognizer names
    row_patterns,   \* TableReconstructor.row_patterns: ordered row recognizer names
    pc,             \* position of the caller in the pass
    text,           \* the text unit (chunk) handed to the engine
    raw,            \* the matches of the last extraction, in match order, before dedup
    entities,       \* result of the last extract_all_entities / _deduplicate_entities
    tables,         \* result of the last detect_and_extract_tables
    qa,             \* outcome of the last Q&A generation step
    calls,          \* the extractions made on this extractor instance: text and result
    cells,          \* result of the last function called directly, with its arguments
    threads,        \* the invocations running concurrently on the shared instances
    stats           \* DatasetProcessor.stats: the entity and table counters

vars == <<patterns, header_patterns, row_patterns, pc, text, raw, entities,
          tables, qa, calls, cells, threads, stats>>

----------------------------------------------------------------------------
(* Characters and strings *)

Digit == {"0","1","2","3","4","5","6","7","8","9"}
Upper == {"A","B","C","D","E","F","G","H","I","J","K","L","M",
          "N","O","P","Q","R","S","T","U","V","W","X","Y","Z"}
Lower == {"a","b","c","d","e","f","g","h","i","j","k","l","m",
          "n","o","p","q","r","s","t","u","v","w","x","y","z"}
Space == {" ", "\t", "\n"}
Punct == {"=", ":", "_", ".", "-", "+", "[", "]", "|", ",", "/", "%", "±", "μ"}
Char  == Digit \cup Upper \cup Lower \cup Space \cup Punct
Word  == Digit \cup Upper \cup Lower \cup {"_"}          \* \w
HexD  == Digit \cup {"A","B","C","D","E","F","a","b","c","d","e","f"}
NotNL == Char \ {"\n"}                                    \* .

\* Python's None, where a str is expected: not a sequence of characters.
None == <<"None">>

IsStr(x) == \A i \in 1..Len(x) : x[i] \in Char

\* s[a:b] with 0-based Python bounds already clipped to 0 <= a, b <= len(s)
Slice(s, a, b) == IF b <= a THEN <<>> ELSE SubSeq(s, a + 1, b)

LStrip(s) ==
    LET n == Cardinality({i \in 1..Len(s) : \A j \in 1..i : s[j] \in Space})
    IN  SubSeq(s, n + 1, Len(s))

RStrip(s) ==
    LET n == Cardinality({i \in 1..Len(s) : \A j \in i..Len(s) : s[j] \in Space})
    IN  SubSeq(s, 1, Len(s) - n)

\* str.strip()
Strip(s) == RStrip(LStrip(s))

LowerSeq == <<"a","b","c","d","e","f","g","h","i","j","k","l","m",
              "n","o","p","q","r","s","t","u","v","w","x","y","z">>
UpperSeq == <<"A","B","C","D","E","F","G","H","I","J","K","L","M",
              "N","O","P","Q","R","S","T","U","V","W","X","Y","Z">>

ToUpper(c) == IF c \in Lower
              THEN UpperSeq[CHOOSE i \in 1..26 : LowerSeq[i] = c] ELSE c
ToLower(c) == IF c \in Upper
              THEN LowerSeq[CHOOSE i \in 1..26 : UpperSeq[i] = c] ELSE c

\* str.upper()
UpperStr(s) == [i \in 1..Len(s) |-> ToUpper(s[i])]

\* str.capitalize()
Capitalize(s) == [i \in 1..Len(s) |-> IF i = 1 THEN ToUpper(s[i]) ELSE ToLower(s[i])]

\* str.endswith(suf)
EndsWith(s, suf) ==
    Len(s) >= Len(suf) /\ SubSeq(s, Len(s) - Len(suf) + 1, Len(s)) = suf

\* the set of the elements of a sequence
Range(f) == {f[i] : i \in 1..Len(f)}

\* the k-th smallest element of a finite set of integers
Nth(S, k) == CHOOSE i \in S : Cardinality({j \in S : j < i}) = k - 1

\* str.split() with no separator: the maximal runs of non-whitespace, in order
Split(s) ==
    LET starts == {i \in 1..Len(s) : s[i] \notin Space /\ (i = 1 \/ s[i - 1] \in Space)}
        ends   == {i \in 1..Len(s) : s[i] \notin Space /\ (i = Len(s) \/ s[i + 1] \in Space)}
    IN  [k \in 1..Cardinality(starts) |-> SubSeq(s, Nth(starts, k), Nth(ends, k))]

RECURSIVE Join(_, _)
\* sep.join(words)
Join(sep, words) ==
    IF words = <<>> THEN <<>>
    ELSE IF Len(words) = 1 THEN words[1]
    ELSE words[1] \o sep \o Join(sep, Tail(words))

\* str.isalpha(): non-empty and every character a letter
IsAlpha(s) == s # <<>> /\ \A i \in 1..Len(s) : s[i] \in Upper \cup Lower

\* str.replace('_', '')
DropUnderscores(s) == SelectSeq(s, LAMBDA ch : ch # "_")

----------------------------------------------------------------------------
(* Regular expressions: syntax *)

Chr(S)     == [k |-> "chr", set |-> S]
Lit(c)     == [k |-> "chr", set |-> {c}]
Cat(ps)    == [k |-> "cat", parts |-> ps]
Alt(ps)    == [k |-> "alt", parts |-> ps]
Star(r)    == [k |-> "rep", r |-> r, min |-> 0, greedy |-> TRUE]
Plus(r)    == [k |-> "rep", r |-> r, min |-> 1, greedy |-> TRUE]
LazyPlus(r)== [k |-> "rep", r |-> r, min |-> 1, greedy |-> FALSE]
Opt(r)     == [k |-> "opt", r |-> r]
Grp(n, r)  == [k |-> "grp", n |-> n, r |-> r]
Bol        == [k |-> "bol"]
Eol        == [k |-> "eol"]
WB         == [k |-> "wb"]
Look(r)    == [k |-> "look", r |-> r]
EndZ       == [k |-> "endz"]

\* a literal string, character by character
Str(s) == Cat([i \in 1..Len(s) |-> Lit(s[i])])

----------------------------------------------------------------------------
(* Regular expressions: the backtracking matcher.                          *)
(* Run(r, s, i, c) is the list of ways r matches s from position i (1-based)*)
(* with groups c, as [pos, caps], most preferred first.  caps[n] is        *)
(* <<start, end>> (end exclusive), or <<0, 0>> for a group that did not    *)
(* take part in the match.                                                 *)

NoCap == <<0, 0>>

IsWordAt(s, i) == i >= 1 /\ i <= Len(s) /\ s[i] \in Word

RECURSIVE Run(_, _, _, _), Step(_, _, _), CatFrom(_, _, _, _),
          AltFrom(_, _, _, _, _), Rep(_, _, _, _, _), RepEach(_, _, _, _)

RECURSIVE FlattenRange(_, _, _)
\* ss[lo] \o ... \o ss[hi], by halves
FlattenRange(ss, lo, hi) ==
    IF lo > hi THEN <<>>
    ELSE IF lo = hi THEN ss[lo]
    ELSE LET mid == (lo + hi) \div 2
         IN  FlattenRange(ss, lo, mid) \o FlattenRange(ss, mid + 1, hi)

\* the concatenation of a sequence of sequences
Flatten(ss) == FlattenRange(ss, 1, Len(ss))

Here(i, c) == << [pos |-> i, caps |-> c] >>

Run(r, s, i, c) ==
    CASE r.k = "chr" ->
            IF i <= Len(s) /\ s[i] \in r.set THEN Here(i + 1, c) ELSE <<>>
      [] r.k = "cat" -> CatFrom(r.parts, 1, s, Here(i, c))
      [] r.k = "alt" -> AltFrom(r.parts, 1, s, i, c)
      [] r.k = "rep" -> Rep(r, s, i, c, r.min)
      [] r.k = "opt" -> Run(r.r, s, i, c) \o Here(i, c)
      [] r.k = "grp" ->
            LET inner == Run(r.r, s, i, c)
            IN  [j \in 1..Len(inner) |->
                    [pos |-> inner[j].pos,
                     caps |-> [inner[j].caps EXCEPT ![r.n] = <<i, inner[j].pos>>]]]
      [] r.k = "bol" -> IF i = 1 THEN Here(i, c) ELSE <<>>
      [] r.k = "eol" ->
            IF i = Len(s) + 1 \/ (i = Len(s) /\ s[i] = "\n")
            THEN Here(i, c) ELSE <<>>
      [] r.k = "endz" -> IF i = Len(s) + 1 THEN Here(i, c) ELSE <<>>
      [] r.k = "wb" ->
            IF IsWordAt(s, i - 1) # IsWordAt(s, i) THEN Here(i, c) ELSE <<>>
      [] r.k = "look" ->
            IF Run(r.r, s, i, c) # <<>> THEN Here(i, c) ELSE <<>>

\* every way to continue each of outs with r, in order
Step(r, s, outs) ==
    Flatten([j \in 1..Len(outs) |-> Run(r, s, outs[j].pos, outs[j].caps)])

CatFrom(parts, k, s, outs) ==
    IF k > Len(parts) \/ outs = <<>> THEN outs
    ELSE CatFrom(parts, k + 1, s, Step(parts[k], s, outs))

AltFrom(parts, k, s, i, c) ==
    IF k > Len(parts) THEN <<>>
    ELSE Run(parts[k], s, i, c) \o AltFrom(parts, k + 1, s, i, c)

\* the length of the longest run of characters of S in s from position i
RunLength(S, s, i) ==
    Cardinality({j \in i..Len(s) : \A k \in i..j : s[k] \in S})

\* r.r repeated at least m times; an iteration that consumes nothing ends it.
\* The repetition of a single character class is its run, cut at every length.
Rep(r, s, i, c, m) ==
    IF r.r.k = "chr"
    THEN LET n == RunLength(r.r.set, s, i)
         IN  IF n < m THEN <<>>
             ELSE [j \in 1..(n - m + 1) |->
                     [pos  |-> IF r.greedy THEN i + n - (j - 1) ELSE i + m + (j - 1),
                      caps |-> c]]
    ELSE LET once == SelectSeq(Run(r.r, s, i, c), LAMBDA o : o.pos > i)
             more == RepEach(r, s, once, IF m > 0 THEN m - 1 ELSE 0)
             stop == IF m = 0 THEN Here(i, c) ELSE <<>>
         IN  IF r.greedy THEN more \o stop ELSE stop \o more

RepEach(r, s, outs, m) ==
    Flatten([j \in 1..Len(outs) |-> Rep(r, s, outs[j].pos, outs[j].caps, m)])

\* A compiled pattern: its tree and its number of groups.
Pat(n, r) == [re |-> r, ngroups |-> n]

\* pattern.match(s) at position i: the preferred match, or <<>> for no match
MatchAt(p, s, i) ==
    LET Preferred(outs) ==
            IF outs = <<>> THEN <<>>
            ELSE << [start |-> i, end |-> outs[1].pos, caps |-> outs[1].caps] >>
    IN  Preferred(Run(p.re, s, i, [g \in 1..p.ngroups |-> NoCap]))

RECURSIVE Chain(_, _)
\* the leftmost match of hits from position i on, then the leftmost after its end
Chain(hits, i) ==
    LET later == {h \in hits : h.start >= i}
    IN  IF later = {} THEN <<>>
        ELSE LET h == CHOOSE x \in later : \A y \in later : x.start <= y.start
             IN  <<h>> \o Chain(hits, IF h.end > h.start THEN h.end ELSE h.start + 1)

\* pattern.finditer(s): the leftmost non-overlapping matches, in order
FindIter(p, s) ==
    LET at   == {MatchAt(p, s, i) : i \in 1..(Len(s) + 1)}
        hits == {m[1] : m \in at \ {<<>>}}
    IN  Chain(hits, 1)

\* pattern.search(s) succeeds
Search(p, s) == FindIter(p, s) # <<>>

\* match.group(n): the captured text, or None
Group(m, s, n) ==
    IF m.caps[n] = NoCap THEN None
    ELSE Slice(s, m.caps[n][1] - 1, m.caps[n][2] - 1)

\* match.groups()
Groups(m, s) == [n \in 1..Len(m.caps) |-> Group(m, s, n)]

----------------------------------------------------------------------------
(* entity_extractor.py: the recognizers *)

WS     == Chr(Space)                                      \* \s
D      == Chr(Digit)                                      \* \d
EqCol  == Chr({"=", ":"})                                 \* [=:]
Ident  == Cat(<<Chr(Upper \cup {"_"}),
                Star(Chr(Upper \cup Digit \cup {"_"}))>>) \* [A-Z_][A-Z0-9_]*
Hex    == Plus(Chr(HexD))                                 \* [0-9A-Fa-f]+
Num    == Cat(<<Plus(D), Opt(Lit(".")), Star(D)>>)        \* \d+\.?\d*
Assign == Cat(<<Star(WS), EqCol, Star(WS)>>)              \* \s*[=:]\s*
PinWord == Cat(<<Chr({"P", "p"}), Str(<<"i","n">>)>>)          \* [Pp]in
RegWord == Cat(<<Chr({"R", "r"}), Str(<<"e","g","i","s","t","e","r">>)>>)     \* [Rr]egister
TimeUnit == Alt(<<Str(<<"n","s">>), Str(<<"u","s">>), Str(<<"m","s">>),
                  Str(<<"μ","s">>), Lit("s")>>)                \* ns|us|ms|μs|s
FreqUnit == Alt(<<Str(<<"M","H","z">>), Str(<<"G","H","z">>), Str(<<"K","H","z">>),
                  Str(<<"H","z">>)>>)                          \* MHz|GHz|KHz|Hz
CurUnit  == Alt(<<Str(<<"m","A">>), Lit("A"), Str(<<"μ","A">>)>>)   \* mA|A|μA
Tol(n)   == Opt(Cat(<<Lit("±"), Star(WS), Grp(n, Num), Lit("%")>>))
                                                          \* (?:±\s*(\d+\.?\d*)%)?
TimeName == Cat(<<Plus(Chr(Upper \cup Lower \cup Space)), Str(<<"t","i","m","e">>)>>)
                                                          \* [a-zA-Z\s]+time

\* The compiled pattern a recognizer name stands for (self.patterns[...][i]).
Compiled(name) ==
    CASE name = "pin1" -> Pat(2, Cat(<<PinWord, Plus(WS), Grp(1, Plus(D)), Assign,
                Grp(2, Cat(<<Ident, Star(Cat(<<Plus(WS), Ident>>))>>))>>))
      [] name = "pin2" -> Pat(2, Cat(<<PinWord, Plus(WS),
                Grp(1, Cat(<<Chr(Upper), Plus(D)>>)), Assign, Grp(2, Ident)>>))
      [] name = "pin3" -> Pat(2, Cat(<<Grp(1, Ident), Plus(WS), Str(<<"o","n">>), Plus(WS),
                PinWord, Plus(WS), Grp(2, Plus(D))>>))
      [] name = "reg1" -> Pat(1, Cat(<<RegWord, Plus(WS),
                Opt(Cat(<<Str(<<"a","t">>), Plus(WS)>>)), Str(<<"0","x">>), Grp(1, Hex)>>))
      [] name = "reg2" -> Pat(2, Cat(<<Str(<<"0","x">>), Grp(1, Hex), Assign,
                Str(<<"0","x">>), Grp(2, Hex)>>))
      [] name = "reg3" -> Pat(2, Cat(<<Grp(1, Ident), Plus(WS), RegWord, Assign,
                Str(<<"0","x">>), Grp(2, Hex)>>))
      [] name = "reg4" -> Pat(1, Cat(<<Chr({"A", "a"}), Str(<<"d","d","r","e","s","s">>), Assign,
                Str(<<"0","x">>), Grp(1, Hex)>>))
      [] name = "volt1" -> Pat(2, Cat(<<Grp(1, Num), Star(WS), Lit("V"), Star(WS),
                Tol(2)>>))
      [] name = "volt2" -> Pat(2, Cat(<<Grp(1, Ident), Assign, Grp(2, Num), Star(WS),
                Lit("V")>>))
      [] name = "volt3" -> Pat(1, Cat(<<Chr({"V", "v"}), Str(<<"o","l","t","a","g","e">>), Assign,
                Grp(1, Num), Star(WS), Lit("V")>>))
      [] name = "tim1" -> Pat(3, Cat(<<Grp(1, Num), Star(WS), Grp(2, TimeUnit),
                Plus(WS), Grp(3, TimeName)>>))
      [] name = "tim2" -> Pat(3, Cat(<<Grp(1, TimeName), Assign, Grp(2, Num),
                Star(WS), Grp(3, TimeUnit)>>))
      [] name = "tim3" -> Pat(2, Cat(<<Chr({"T", "t"}), Str(<<"i","m","i","n","g">>), Assign,
                Grp(1, Num), Star(WS), Grp(2, TimeUnit)>>))
      [] name = "tim4" -> Pat(2, Cat(<<Chr({"D", "d"}), Str(<<"e","l","a","y">>), Assign,
                Grp(1, Num), Star(WS), Grp(2, TimeUnit)>>))
      [] name = "freq1" -> Pat(2, Cat(<<Grp(1, Num), Star(WS), Grp(2, FreqUnit)>>))
      [] name = "freq2" -> Pat(2, Cat(<<Chr({"F", "f"}), Str(<<"r","e","q","u","e","n","c","y">>), Assign,
                Grp(1, Num), Star(WS), Grp(2, FreqUnit)>>))
      [] name = "freq3" -> Pat(2, Cat(<<Chr({"C", "c"}), Str(<<"l","o","c","k">>), Assign,
                Grp(1, Num), Star(WS), Grp(2, FreqUnit)>>))
      [] name = "cur1" -> Pat(3, Cat(<<Grp(1, Num), Star(WS), Grp(2, CurUnit),
                Star(WS), Tol(3)>>))
      [] name = "cur2" -> Pat(2, Cat(<<Chr({"C", "c"}), Str(<<"u","r","r","e","n","t">>), Assign,
                Grp(1, Num), Star(WS), Grp(2, CurUnit)>>))
      [] name = "cur3" -> Pat(2, Cat(<<Chr({"M", "m"}), Str(<<"a","x">>), Plus(WS),
                Chr({"C", "c"}), Str(<<"u","r","r","e","n","t">>), Assign,
                Grp(1, Num), Star(WS), Grp(2, CurUnit)>>))
      [] name = "bit1" -> Pat(3, Cat(<<Chr({"B", "b"}), Str(<<"i","t">>), Star(WS), Lit("["),
                Grp(1, Plus(D)), Lit(":"), Grp(2, Plus(D)), Lit("]"), Assign,
                Grp(3, Ident)>>))
      [] name = "bit2" -> Pat(3, Cat(<<Chr({"B", "b"}), Str(<<"i","t">>), Plus(WS),
                Grp(1, Plus(D)), Assign, Grp(2, Chr({"0", "1"})), Assign,
                Grp(3, Ident)>>))
      [] name = "bit3" -> Pat(3, Cat(<<Chr({"B", "b"}), Str(<<"i","t">>), Opt(Lit("s")),
                Plus(WS), Grp(1, Plus(D)), Opt(Cat(<<Lit("-"), Grp(2, Plus(D))>>)),
                Assign, Grp(3, Ident)>>))

\* TechnicalEntityExtractor.__init__: the pattern table
InitPatterns ==
    [pin       |-> <<"pin1", "pin2", "pin3">>,
     register  |-> <<"reg1", "reg2", "reg3", "reg4">>,
     voltage   |-> <<"volt1", "volt2", "volt3">>,
     timing    |-> <<"tim1", "tim2", "tim3", "tim4">>,
     frequency |-> <<"freq1", "freq2", "freq3">>,
     current   |-> <<"cur1", "cur2", "cur3">>,
     bitfield  |-> <<"bit1", "bit2", "bit3">>]

----------------------------------------------------------------------------
(* entity_extractor.py: building entities from matches *)

ContextSize == 100
ProcContextSize == 150

Min(a, b) == IF a < b THEN a ELSE b
Max(a, b) == IF a > b THEN a ELSE b

\* [m for name in names for m in pattern.finditer(s)], as [p, m] pairs
MatchesOf(names, s) ==
    LET Tagged(p, ms) == [j \in 1..Len(ms) |-> [p |-> p, m |-> ms[j]]]
    IN  Flatten([i \in 1..Len(names) |->
                    Tagged(names[i], FindIter(Compiled(names[i]), s))])

\* _get_context
GetContext(s, m, context_size) ==
    LET start == Max(0, (m.start - 1) - context_size)
        end   == Min(Len(s), (m.end - 1) + context_size)
    IN  Strip(Slice(s, start, end))

Entity(type, name, value, unit, context, metadata) ==
    [entity_type |-> type, name |-> name, value |-> value, unit |-> unit,
     context |-> context, metadata |-> metadata]

\* _deduplicate_entities: the loop over entities[k..], with the keys seen so far
RECURSIVE DedupFrom(_, _, _)
DedupFrom(ents, k, seen) ==
    IF k > Len(ents) THEN <<>>
    ELSE LET key == <<ents[k].entity_type, ents[k].name, ents[k].value>>
         IN  IF key \notin seen
             THEN <<ents[k]>> \o DedupFrom(ents, k + 1, seen \cup {key})
             ELSE DedupFrom(ents, k + 1, seen)

\* _deduplicate_entities with the category left out of the key
DedupIgnoringCategory(ents) ==
    LET first == {i \in 1..Len(ents) : \A j \in 1..(i - 1) :
                     <<ents[j].name, ents[j].value>> # <<ents[i].name, ents[i].value>>}
    IN  [k \in 1..Cardinality(first) |-> ents[Nth(first, k)]]

_deduplicate_entities(ents) == DedupFrom(ents, 1, {})

\* PinOf reading every match as the third pattern's (identifier, number)
PinOfSwapped(pm, s) ==
    <<Entity("pin", <<"P","i","n"," ">> \o Groups(pm.m, s)[2], Strip(Groups(pm.m, s)[1]), None,
             GetContext(s, pm.m, ContextSize), [pin_number |-> Groups(pm.m, s)[2]])>>

\* one entity per match, or none: the body of the loops of extract_pin_info
PinOf(pm, s) ==
    LET g == Groups(pm.m, s)
    IN  IF Len(g) = 2
        THEN <<Entity("pin", <<"P","i","n"," ">> \o g[1], Strip(g[2]), None,
                      GetContext(s, pm.m, ContextSize), [pin_number |-> g[1]])>>
        ELSE <<>>

raw_pin_info(s) ==
    LET Each(ms) == Flatten([i \in 1..Len(ms) |-> PinOf(ms[i], s)])
    IN  Each(MatchesOf(patterns.pin, s))

extract_pin_info(s) == _deduplicate_entities(raw_pin_info(s))

RegisterOf(pm, s) ==
    LET g   == Groups(pm.m, s)
        ctx == GetContext(s, pm.m, ContextSize)
    IN  IF Len(g) = 1
        THEN <<Entity("register", <<"R","e","g","i","s","t","e","r">>, <<"0","x">> \o UpperStr(g[1]), None, ctx,
                      [address |-> <<"0","x">> \o UpperStr(g[1])])>>
        ELSE IF Len(g) = 2
        THEN IF IsAlpha(DropUnderscores(g[1]))
             THEN <<Entity("register", g[1], <<"0","x">> \o UpperStr(g[2]), None, ctx,
                           [address |-> <<"0","x">> \o UpperStr(g[2])])>>
             ELSE <<Entity("register", <<"R","e","g","i","s","t","e","r"," ","0","x">> \o UpperStr(g[1]),
                           <<"0","x">> \o UpperStr(g[2]), None, ctx,
                           [address |-> <<"0","x">> \o UpperStr(g[1]),
                            value |-> <<"0","x">> \o UpperStr(g[2])])>>
        ELSE <<>>

raw_register_info(s) ==
    LET Each(ms) == Flatten([i \in 1..Len(ms) |-> RegisterOf(ms[i], s)])
    IN  Each(MatchesOf(patterns.register, s))

extract_register_info(s) == _deduplicate_entities(raw_register_info(s))

----------------------------------------------------------------------------
(* entity_extractor.py: quantities, named from the preceding context *)

AnyLetter  == Chr(Upper \cup Lower)
IdentCI    == Cat(<<Chr(Upper \cup Lower \cup {"_"}),
                    Star(Chr(Upper \cup Lower \cup Digit \cup {"_"}))>>)
                                             \* [A-Z_][A-Z0-9_]* under re.IGNORECASE

RECURSIVE StrCI(_)
\* a literal word under re.IGNORECASE (s is given in lower case)
StrCI(s) == IF Len(s) = 1 THEN Chr({s[1], ToUpper(s[1])})
            ELSE Cat(<<Chr({Head(s), ToUpper(Head(s))}), StrCI(Tail(s))>>)

rail_pattern ==
    Pat(1, Cat(<<Grp(1, Cat(<<IdentCI,
                   Star(Cat(<<Lit("_"), Plus(Chr(Upper \cup Lower \cup Digit))>>))>>)),
                 Plus(WS),
                 Alt(<<StrCI(<<"v","o","l","t","a","g","e">>), StrCI(<<"r","a","i","l">>), StrCI(<<"s","u","p","p","l","y">>)>>)>>))

comp_pattern ==
    Pat(1, Cat(<<Grp(1, IdentCI), Plus(WS),
                 Alt(<<StrCI(<<"r","e","q","u","i","r","e","s">>), StrCI(<<"o","p","e","r","a","t","e","s">>)>>)>>))

clock_pattern ==
    Pat(1, Cat(<<Grp(1, IdentCI), Plus(WS),
                 Alt(<<StrCI(<<"c","l","o","c","k">>), StrCI(<<"f","r","e","q","u","e","n","c","y">>)>>)>>))

current_pattern ==
    Pat(1, Cat(<<Grp(1, Alt(<<StrCI(<<"m","a","x","i","m","u","m">>), StrCI(<<"t","y","p","i","c","a","l">>),
                              StrCI(<<"m","i","n","i","m","u","m">>), StrCI(<<"i","d","l","e">>), StrCI(<<"p","e","a","k">>)>>)),
                 Plus(WS), StrCI(<<"c","u","r","r","e","n","t">>)>>))

\* context[:position]
Before(context, position) == Slice(context, 0, Min(position, Len(context)))

_extract_voltage_name(context, position) ==
    LET Name(before, rail, comp) ==
            IF rail # <<>> THEN Group(rail[1], before, 1) \o <<" ","V","o","l","t","a","g","e">>
            ELSE IF comp # <<>> THEN Group(comp[1], before, 1) \o <<" ","O","p","e","r","a","t","i","n","g"," ","V","o","l","t","a","g","e">>
            ELSE <<"V","o","l","t","a","g","e"," ","S","p","e","c","i","f","i","c","a","t","i","o","n">>
    IN  Name(Before(context, position),
             FindIter(rail_pattern, Before(context, position)),
             FindIter(comp_pattern, Before(context, position)))

_extract_frequency_name(context, position) ==
    LET Name(before, clock) ==
            IF clock # <<>> THEN Group(clock[1], before, 1) \o <<" ","C","l","o","c","k">>
            ELSE <<"F","r","e","q","u","e","n","c","y"," ","S","p","e","c","i","f","i","c","a","t","i","o","n">>
    IN  Name(Before(context, position),
             FindIter(clock_pattern, Before(context, position)))

_extract_current_name(context, position) ==
    LET Name(before, cur) ==
            IF cur # <<>> THEN Capitalize(Group(cur[1], before, 1)) \o <<" ","C","u","r","r","e","n","t">>
            ELSE <<"C","u","r","r","e","n","t"," ","S","p","e","c","i","f","i","c","a","t","i","o","n">>
    IN  Name(Before(context, position),
             FindIter(current_pattern, Before(context, position)))

\* a group that is None or '' is falsy
Truthy(g) == g # None /\ g # <<>>

VoltageOf(pm, s) ==
    LET g         == Groups(pm.m, s)
        voltage   == g[1]
        tolerance == IF Len(g) > 1 /\ Truthy(g[2]) THEN g[2] ELSE None
        context   == GetContext(s, pm.m, ContextSize)
        name      == _extract_voltage_name(context, pm.m.start - 1)
    IN  IF Len(g) >= 1
        THEN <<Entity("voltage", name, voltage, <<"V">>, context,
                  IF tolerance # None
                  THEN [voltage |-> voltage, tolerance |-> <<"±">> \o tolerance \o <<"%">>]
                  ELSE [voltage |-> voltage])>>
        ELSE <<>>

raw_voltage_specs(s) ==
    LET Each(ms) == Flatten([i \in 1..Len(ms) |-> VoltageOf(ms[i], s)])
    IN  Each(MatchesOf(patterns.voltage, s))

extract_voltage_specs(s) == _deduplicate_entities(raw_voltage_specs(s))

TimingOf(pm, s) ==
    LET g == Groups(pm.m, s)
    IN  IF Len(g) = 3
        THEN LET valueFirst == EndsWith(g[3], <<"t","i","m","e">>)
                 value == IF valueFirst THEN g[1] ELSE g[2]
                 unit  == IF valueFirst THEN g[2] ELSE g[3]
                 name  == IF valueFirst THEN g[3] ELSE g[1]
             IN  <<Entity("timing", Strip(name), value, unit,
                          GetContext(s, pm.m, ContextSize),
                          [time_value |-> value, time_unit |-> unit])>>
        ELSE <<>>

raw_timing_specs(s) ==
    LET Each(ms) == Flatten([i \in 1..Len(ms) |-> TimingOf(ms[i], s)])
    IN  Each(MatchesOf(patterns.timing, s))

extract_timing_specs(s) == _deduplicate_entities(raw_timing_specs(s))

FrequencyOf(pm, s) ==
    LET g       == Groups(pm.m, s)
        context == GetContext(s, pm.m, ContextSize)
    IN  IF Len(g) >= 2
        THEN <<Entity("frequency", _extract_frequency_name(context, pm.m.start - 1),
                      g[1], g[2], context, [frequency |-> g[1], unit |-> g[2]])>>
        ELSE <<>>

raw_frequency_specs(s) ==
    LET Each(ms) == Flatten([i \in 1..Len(ms) |-> FrequencyOf(ms[i], s)])
    IN  Each(MatchesOf(patterns.frequency, s))

extract_frequency_specs(s) == _deduplicate_entities(raw_frequency_specs(s))

CurrentOf(pm, s) ==
    LET g         == Groups(pm.m, s)
        tolerance == IF Len(g) > 2 /\ Truthy(g[3]) THEN g[3] ELSE None
        context   == GetContext(s, pm.m, ContextSize)
    IN  IF Len(g) >= 2
        THEN <<Entity("current", _extract_current_name(context, pm.m.start - 1),
                  g[1], g[2], context,
                  IF tolerance # None
                  THEN [current |-> g[1], unit |-> g[2],
                        tolerance |-> <<"±">> \o tolerance \o <<"%">>]
                  ELSE [current |-> g[1], unit |-> g[2]])>>
        ELSE <<>>

raw_current_specs(s) ==
    LET Each(ms) == Flatten([i \in 1..Len(ms) |-> CurrentOf(ms[i], s)])
    IN  Each(MatchesOf(patterns.current, s))

extract_current_specs(s) == _deduplicate_entities(raw_current_specs(s))

BitfieldOf(pm, s) ==
    LET g       == Groups(pm.m, s)
        context == GetContext(s, pm.m, ContextSize)
    IN  IF Len(g) >= 2
        THEN IF Len(g) = 3 /\ Truthy(g[2]) /\ Truthy(g[3])
             THEN <<Entity("bitfield",
                        <<"B","i","t","s","[">> \o g[1] \o <<":">> \o g[2] \o <<"]">>,
                        g[3], None, context, [start_bit |-> g[1], end_bit |-> g[2]])>>
             ELSE <<Entity("bitfield", <<"B","i","t"," ">> \o g[1], g[Len(g)], None, context,
                        [bit |-> g[1]])>>
        ELSE <<>>

raw_bitfield_info(s) ==
    LET Each(ms) == Flatten([i \in 1..Len(ms) |-> BitfieldOf(ms[i], s)])
    IN  Each(MatchesOf(patterns.bitfield, s))

extract_bitfield_info(s) == _deduplicate_entities(raw_bitfield_info(s))

----------------------------------------------------------------------------
(* entity_extractor.py: error codes and procedure steps, whose patterns are *)
(* compiled inside the extracting function                                  *)

ErrWord == Cat(<<Chr({"E", "e"}), Str(<<"r","r","o","r">>)>>)        \* [Ee]rror
StepWord == Cat(<<Chr({"S", "s"}), Str(<<"t","e","p">>)>>)        \* [Ss]tep
LineEnd == Look(Alt(<<Lit("\n"), Eol>>))                  \* (?=\n|$)
NLNL    == Str(<<"\n","\n">>)

error_patterns ==
    << Pat(2, Cat(<<ErrWord, Plus(WS),
                    Opt(Cat(<<Chr({"C", "c"}), Str(<<"o","d","e">>), Plus(WS)>>)),
                    Str(<<"0","x">>), Grp(1, Hex), Assign,
                    Grp(2, LazyPlus(Chr(NotNL))), LineEnd>>)),
       Pat(2, Cat(<<Str(<<"0","x">>), Grp(1, Hex), Assign,
                    Grp(2, Cat(<<Ident, Str(<<"_","E","R","R","O","R">>)>>))>>)),
       Pat(2, Cat(<<ErrWord, Plus(WS), Grp(1, Plus(D)), Assign,
                    Grp(2, LazyPlus(Chr(NotNL))), LineEnd>>)) >>

\* re.DOTALL: . is any character; \Z is the end of the string
procedure_patterns ==
    << Pat(2, Cat(<<StepWord, Plus(WS), Grp(1, Plus(D)), Star(WS), Chr({":", "."}),
                    Star(WS), Grp(2, LazyPlus(Chr(Char))),
                    Look(Alt(<<Cat(<<Lit("\n"), StepWord>>), NLNL, EndZ>>))>>)),
       Pat(2, Cat(<<Grp(1, Plus(D)), Lit("."), Plus(WS),
                    Grp(2, Cat(<<Chr(Upper), Plus(Chr(Char \ {"."})), Lit(".")>>))>>)),
       Pat(2, Cat(<<Chr({"T", "t"}), Lit("o"), Plus(WS),
                    Grp(1, Cat(<<Plus(Chr(Lower)), Plus(WS), Plus(Chr(Char \ {":"}))>>)),
                    Lit(":"), Star(WS), Lit("\n"), Grp(2, LazyPlus(Chr(Char))),
                    Look(Alt(<<NLNL, EndZ>>))>>)) >>

\* [m for pattern in pats for m in pattern.finditer(s)], as [p, m] pairs
MatchesOfPats(pats, s) ==
    LET Tagged(p, ms) == [j \in 1..Len(ms) |-> [p |-> p, m |-> ms[j]]]
    IN  Flatten([i \in 1..Len(pats) |-> Tagged(i, FindIter(pats[i], s))])

ErrorOf(pm, s) ==
    LET g == Groups(pm.m, s)
    IN  <<Entity("error_code", <<"E","r","r","o","r"," ","C","o","d","e"," ">> \o g[1], Strip(g[2]), None,
                 GetContext(s, pm.m, ContextSize), [code |-> g[1]])>>

raw_error_codes(s) ==
    LET Each(ms) == Flatten([i \in 1..Len(ms) |-> ErrorOf(ms[i], s)])
    IN  Each(MatchesOfPats(error_patterns, s))

extract_error_codes(s) == _deduplicate_entities(raw_error_codes(s))

ProcedureOf(pm, s) ==
    LET g == Groups(pm.m, s)
    IN  IF Len(g) = 2
        THEN <<Entity("procedure_step", <<"S","t","e","p"," ">> \o g[1], Join(<<" ">>, Split(g[2])),
                      None, GetContext(s, pm.m, ProcContextSize),
                      [step_number |-> g[1]])>>
        ELSE <<>>

raw_procedures(s) ==
    LET Each(ms) == Flatten([i \in 1..Len(ms) |-> ProcedureOf(ms[i], s)])
    IN  Each(MatchesOfPats(procedure_patterns, s))

extract_procedures(s) == _deduplicate_entities(raw_procedures(s))

\* the matches of one pass in match order, category after category, before
\* any deduplication
raw_all_entities(s) ==
    raw_pin_info(s) \o raw_register_info(s) \o raw_voltage_specs(s)
    \o raw_timing_specs(s) \o raw_frequency_specs(s) \o raw_current_specs(s)
    \o raw_bitfield_info(s) \o raw_error_codes(s) \o raw_procedures(s)

\* extract_all_entities appending to the list the previous call left behind
ExtractRetaining(s) ==
    entities \o extract_pin_info(s) \o extract_register_info(s)
    \o extract_voltage_specs(s) \o extract_timing_specs(s)
    \o extract_frequency_specs(s) \o extract_current_specs(s)
    \o extract_bitfield_info(s) \o extract_error_codes(s) \o extract_procedures(s)

\* extract_all_entities with the categories in the order of the EntityType
\* enumeration: procedure steps before error codes
ExtractInEnumOrder(s) ==
    extract_pin_info(s) \o extract_register_info(s) \o extract_voltage_specs(s)
    \o extract_timing_specs(s) \o extract_frequency_specs(s)
    \o extract_current_specs(s) \o extract_bitfield_info(s)
    \o extract_procedures(s) \o extract_error_codes(s)

extract_all_entities(s) ==
    extract_pin_info(s) \o extract_register_info(s) \o extract_voltage_specs(s)
    \o extract_timing_specs(s) \o extract_frequency_specs(s)
    \o extract_current_specs(s) \o extract_bitfield_info(s)
    \o extract_error_codes(s) \o extract_procedures(s)

----------------------------------------------------------------------------
(* table_reconstructor.py: patterns *)

AtLeast(m, r) == [k |-> "rep", r |-> r, min |-> m, greedy |-> TRUE]   \* r{m,}

\* str.lower()
LowerStr(s) == [i \in 1..Len(s) |-> ToLower(s[i])]

\* needle in hay, for strings
Contains(hay, needle) ==
    \E i \in 0..(Len(hay) - Len(needle)) : SubSeq(hay, i + 1, i + Len(needle)) = needle

\* re.split(p, s) and str.split(sep): the pieces between the matches of p
ReSplit(p, s) ==
    LET Pieces(ms) ==
            [k \in 1..(Len(ms) + 1) |->
                SubSeq(s, IF k = 1 THEN 1 ELSE ms[k - 1].end,
                          IF k = Len(ms) + 1 THEN Len(s) ELSE ms[k].start - 1)]
    IN  Pieces(FindIter(p, s))

SplitOn(sep, s) == ReSplit(Pat(0, Str(sep)), s)

\* a word whose first letter may be in either case, as in [Pp]in
CapWord(w) == IF Len(w) = 1 THEN Chr({w[1], ToUpper(w[1])})
              ELSE Cat(<<Chr({w[1], ToUpper(w[1])}), Str(Tail(w))>>)

\* such words separated by \s+
HeaderWords(ws) ==
    Cat([i \in 1..(2 * Len(ws) - 1) |->
            IF i % 2 = 1 THEN CapWord(ws[(i + 1) \div 2]) ELSE Plus(WS)])

\* the header pattern a name of header_patterns stands for
CompiledHeader(name) ==
    CASE name = "h1"  -> Pat(0, HeaderWords(<<<<"p","i","n">>, <<"n","a","m","e">>, <<"f","u","n","c","t","i","o","n">>>>))
      [] name = "h2"  -> Pat(0, HeaderWords(<<<<"p","i","n">>, <<"n","u","m","b","e","r">>, <<"s","i","g","n","a","l">>,
                                              <<"n","a","m","e">>, <<"d","e","s","c","r","i","p","t","i","o","n">>>>))
      [] name = "h3"  -> Pat(0, HeaderWords(<<<<"p","i","n">>, <<"t","y","p","e">>, <<"d","e","s","c","r","i","p","t","i","o","n">>>>))
      [] name = "h4"  -> Pat(0, HeaderWords(<<<<"r","e","g","i","s","t","e","r">>, <<"a","d","d","r","e","s","s">>,
                                              <<"d","e","s","c","r","i","p","t","i","o","n">>>>))
      [] name = "h5"  -> Pat(0, HeaderWords(<<<<"a","d","d","r","e","s","s">>, <<"n","a","m","e">>, <<"a","c","c","e","s","s">>,
                                              <<"d","e","f","a","u","l","t">>>>))
      [] name = "h6"  -> Pat(0, HeaderWords(<<<<"b","i","t">>, <<"f","i","e","l","d">>, <<"a","c","c","e","s","s">>,
                                              <<"d","e","s","c","r","i","p","t","i","o","n">>>>))
      [] name = "h7"  -> Pat(0, HeaderWords(<<<<"p","a","r","a","m","e","t","e","r">>, <<"m","i","n">>, <<"t","y","p">>,
                                              <<"m","a","x">>, <<"u","n","i","t">>>>))
      [] name = "h8"  -> Pat(0, HeaderWords(<<<<"s","y","m","b","o","l">>, <<"p","a","r","a","m","e","t","e","r">>,
                                              <<"c","o","n","d","i","t","i","o","n","s">>, <<"m","i","n">>, <<"m","a","x">>>>))
      [] name = "h9"  -> Pat(0, HeaderWords(<<<<"n","a","m","e">>, <<"v","a","l","u","e">>, <<"d","e","s","c","r","i","p","t","i","o","n">>>>))
      [] name = "h10" -> Pat(0, HeaderWords(<<<<"i","t","e","m">>, <<"s","p","e","c","i","f","i","c","a","t","i","o","n">>>>))

InitHeaderPatterns == <<"h1", "h2", "h3", "h4", "h5", "h6", "h7", "h8", "h9", "h10">>

pin_row       == <<"p","i","n","_","r","o","w">>
register_row  == <<"r","e","g","i","s","t","e","r","_","r","o","w">>
spec_row      == <<"s","p","e","c","_","r","o","w">>
bit_field_row == <<"b","i","t","_","f","i","e","l","d","_","r","o","w">>

pin_table       == <<"p","i","n","_","t","a","b","l","e">>
register_table  == <<"r","e","g","i","s","t","e","r","_","t","a","b","l","e">>
bit_field_table == <<"b","i","t","_","f","i","e","l","d","_","t","a","b","l","e">>
spec_table      == <<"s","p","e","c","_","t","a","b","l","e">>
error_table     == <<"e","r","r","o","r","_","t","a","b","l","e">>
generic_table   == <<"g","e","n","e","r","i","c","_","t","a","b","l","e">>
generic         == <<"g","e","n","e","r","i","c">>

NumUnit(n) == Cat(<<Grp(n, Num), Star(WS), Grp(n + 1, Star(Chr(Word)))>>)
                                                            \* (\d+\.?\d*)\s*(\w*)

\* the row pattern a key of row_patterns stands for
CompiledRow(name) ==
    CASE name = pin_row ->
            Pat(3, Cat(<<Bol, Star(WS), Grp(1, Plus(D)), Plus(WS), Grp(2, Ident),
                         Plus(WS), Grp(3, Plus(Chr(NotNL))), Eol>>))
      [] name = register_row ->
            Pat(3, Cat(<<Bol, Star(WS), Str(<<"0","x">>), Grp(1, Hex), Plus(WS),
                         Grp(2, Ident), Plus(WS), Grp(3, Plus(Chr(NotNL))), Eol>>))
      [] name = spec_row ->
            Pat(7, Cat(<<Bol, Star(WS), Grp(1, Ident), Plus(WS), NumUnit(2), Plus(WS),
                         NumUnit(4), Plus(WS), NumUnit(6)>>))
      [] name = bit_field_row ->
            Pat(5, Cat(<<Bol, Star(WS), Opt(Lit("[")), Grp(1, Plus(D)),
                         Opt(Cat(<<Lit(":"), Grp(2, Plus(D))>>)), Opt(Lit("]")),
                         Plus(WS), Grp(3, Ident), Plus(WS),
                         Grp(4, Cat(<<Chr({"R", "W"}), Opt(Lit("/")),
                                      Opt(Chr({"W", "O"}))>>)),
                         Plus(WS), Grp(5, Plus(Chr(NotNL))), Eol>>))

\* TableReconstructor.__init__: the keys of row_patterns, in insertion order
InitRowPatterns == <<pin_row, register_row, spec_row, bit_field_row>>

table_markers ==
    << Pat(0, Cat(<<CapWord(<<"t","a","b","l","e">>), Plus(WS), Plus(D), Chr({":", "."}), Star(WS)>>)),
       Pat(0, Cat(<<CapWord(<<"f","i","g","u","r","e">>), Plus(WS), Plus(D), Chr({":", "."}), Star(WS)>>)),
       Pat(0, Cat(<<Lit("\n"), Star(WS), Plus(Chr({"-", "="})), Star(WS), Lit("\n")>>)) >>

section_patterns ==
    << Pat(0, Cat(<<Bol, Chr(Upper), Plus(Chr(Upper \cup Space)), Opt(Lit(":")),
                    Star(WS), Eol>>)),
       Pat(0, Cat(<<Bol, Plus(D), Lit("."), Plus(WS), Chr(Upper)>>)),
       Pat(0, Cat(<<Bol, CapWord(<<"n","o","t","e">>), Lit(":")>>)),
       Pat(0, Cat(<<Bol, CapWord(<<"c","a","u","t","i","o","n">>), Lit(":")>>)),
       Pat(0, Cat(<<Bol, AtLeast(5, Chr({"-", "="})), Eol>>)) >>

split_patterns ==
    << Pat(0, Cat(<<Str(<<"0","x">>), Hex>>)),
       Pat(0, Cat(<<WB, Plus(D), WB>>)),
       Pat(0, Cat(<<WB, Plus(D), Lit("."), Plus(D), WB>>)),
       Pat(0, Cat(<<WB, Ident, WB>>)) >>

TwoSpaces == Pat(0, AtLeast(2, WS))                         \* \s{2,}
SomeSpace == Pat(0, Plus(WS))                               \* \s+
BarComma  == Pat(0, Cat(<<Star(WS), Chr({"|", ","}), Star(WS)>>))   \* \s*[|,]\s*

----------------------------------------------------------------------------
(* table_reconstructor.py: sections, headers, rows *)

Table(headers, rows, context, table_type) ==
    [headers |-> headers, rows |-> rows, context |-> context, table_type |-> table_type]

\* the non-empty strings of ss, trimmed: [s.strip() for s in ss if s.strip()]
StripAll(ss) ==
    LET kept == SelectSeq(ss, LAMBDA x : Strip(x) # <<>>)
    IN  [i \in 1..Len(kept) |-> Strip(kept[i])]

RECURSIVE MarkerLoop(_, _, _, _, _)
\* the two loops over the markers and their matches, from match k of ms on; a
\* section text[from:to] appended to the list is kept as its two offsets
MarkerLoop(s, ms, k, current_pos, spans) ==
    IF k > Len(ms) THEN [current_pos |-> current_pos, spans |-> spans]
    ELSE LET start == ms[k].m.start - 1
         IN  MarkerLoop(s, ms, k + 1, start,
                        IF start > current_pos
                        THEN Append(spans, [from |-> current_pos, to |-> start])
                        ELSE spans)

\* the list `sections` after the marker loops and "Add remaining text"
MarkedSpans(s) ==
    LET \* if current_pos < len(text): sections.append(text[current_pos:])
        WithTail(done) ==
            IF done.current_pos < Len(s)
            THEN Append(done.spans, [from |-> done.current_pos, to |-> Len(s)])
            ELSE done.spans
    IN  WithTail(MarkerLoop(s, MatchesOfPats(table_markers, s), 1, 0, <<>>))

_split_into_sections(s) ==
    LET \* if len(sections) <= 1: sections = text.split('\n\n')
        OrParagraphs(spans) ==
            IF Len(spans) <= 1 THEN SplitOn(<<"\n","\n">>, s)
            ELSE [i \in 1..Len(spans) |-> Slice(s, spans[i].from, spans[i].to)]
    IN  StripAll(OrParagraphs(MarkedSpans(s)))

\* line = re.sub(r'\s+', ' ', line.strip()), then the splitting strategies
_extract_headers(line0) ==
    LET \* if len(headers) <= 1: headers = re.split(r'\s*[|,]\s*', line)
        ByDelimiters(line, headers) ==
            IF Len(headers) <= 1 THEN ReSplit(BarComma, line) ELSE headers
        \* if len(headers) <= 1: headers = line.split()
        BySingleSpace(line, headers) ==
            IF Len(headers) <= 1 THEN Split(line) ELSE headers
        HeadersOf(line) ==
            StripAll(BySingleSpace(line, ByDelimiters(line, ReSplit(TwoSpaces, line))))
    IN  HeadersOf(Join(<<" ">>, ReSplit(SomeSpace, Strip(line0))))

_determine_table_type(header_line) ==
    LET header_lower == LowerStr(header_line)
        has(w) == Contains(header_lower, w)
    IN  IF has(<<"p","i","n">>) THEN pin_table
        ELSE IF has(<<"r","e","g","i","s","t","e","r">>) \/ has(<<"a","d","d","r","e","s","s">>) THEN register_table
        ELSE IF has(<<"b","i","t">>) /\ has(<<"f","i","e","l","d">>) THEN bit_field_table
        ELSE IF has(<<"p","a","r","a","m","e","t","e","r">>) \/ has(<<"s","p","e","c","i","f","i","c","a","t","i","o","n">>) \/ has(<<"m","i","n">>)
                \/ has(<<"m","a","x">>) THEN spec_table
        ELSE IF has(<<"e","r","r","o","r">>) \/ has(<<"c","o","d","e">>) THEN error_table
        ELSE generic_table

\* _guess_table_type_from_content falling through to None where nothing in the
\* content hints at a type
GuessOrNone(lines) ==
    IF Search(Pat(0, Cat(<<WB, Str(<<"p","i","n">>), Plus(WS), Plus(D), WB>>)),
              LowerStr(Join(<<" ">>, lines)))
    THEN pin_table
    ELSE IF Search(Pat(0, Cat(<<Str(<<"0","x">>), Plus(Chr(HexD))>>)),
                   LowerStr(Join(<<" ">>, lines)))
    THEN register_table
    ELSE IF Search(Pat(0, Cat(<<Plus(D), Lit("."), Plus(D), Star(WS), Chr({"v", "m"})>>)),
                   LowerStr(Join(<<" ">>, lines)))
    THEN spec_table
    ELSE None

_guess_table_type_from_content(lines) ==
    LET content == LowerStr(Join(<<" ">>, lines))
    IN  IF Search(Pat(0, Cat(<<WB, Str(<<"p","i","n">>), Plus(WS), Plus(D), WB>>)), content)
        THEN pin_table
        ELSE IF Search(Pat(0, Cat(<<Str(<<"0","x">>),
                    Plus(Chr(Digit \cup {"a", "b", "c", "d", "e", "f"}))>>)), content)
        THEN register_table
        ELSE IF Search(Pat(0, Cat(<<Plus(D), Lit("."), Plus(D), Star(WS),
                    Chr({"v", "m"})>>)), content)
        THEN spec_table
        ELSE generic_table

\* (None, None, None): no header found.  An absent header list is written <<>>,
\* which the callers' "if not headers" does not tell from None.
NoHeader == [headers |-> <<>>, idx |-> -1, table_type |-> None]

\* the number of lines among the (up to 3) after line idx (0-based) whose word
\* count is within 1 of n
SimilarLines(lines, idx, n) ==
    Cardinality({next_idx \in (idx + 1)..(Min(idx + 4, Len(lines)) - 1) :
        LET d == Len(Split(lines[next_idx + 1])) - n
        IN  d >= -1 /\ d <= 1})

\* _heuristic_header_detection satisfied by a single similar line
HeuristicOnOneSimilarLine(lines) ==
    LET GuessedOn(idx) ==
            [headers    |-> _extract_headers(lines[idx + 1]),
             idx        |-> idx,
             table_type |-> _guess_table_type_from_content(
                                SubSeq(lines, idx + 1, Min(idx + 5, Len(lines))))]
        GuessedAt(found) ==
            IF found = {} THEN NoHeader ELSE GuessedOn(Nth(found, 1))
    IN  GuessedAt({idx \in 0..(Len(lines) - 2) :
            /\ Len(Split(lines[idx + 1])) >= 2
            /\ Len(Split(lines[idx + 1])) <= 6
            /\ SimilarLines(lines, idx, Len(Split(lines[idx + 1]))) >= 1})

_heuristic_header_detection(lines) ==
    LET GuessedOn(idx) ==
            [headers    |-> _extract_headers(lines[idx + 1]),
             idx        |-> idx,
             table_type |-> _guess_table_type_from_content(
                                SubSeq(lines, idx + 1, Min(idx + 5, Len(lines))))]
        \* the loop returns at the first line that qualifies
        GuessedAt(found) ==
            IF found = {} THEN NoHeader ELSE GuessedOn(Nth(found, 1))
    IN  GuessedAt({idx \in 0..(Len(lines) - 2) :
            /\ Len(Split(lines[idx + 1])) >= 2
            /\ Len(Split(lines[idx + 1])) <= 6
            /\ SimilarLines(lines, idx, Len(Split(lines[idx + 1]))) >= 2})

_is_section_boundary(line) ==
    \E k \in 1..Len(section_patterns) : MatchAt(section_patterns[k], Strip(line), 1) # <<>>

\* matches.sort(key=start): stable, so ties stay in the order found
SortByStart(ms) ==
    LET before(a, b) == ms[a].m.start < ms[b].m.start
                        \/ (ms[a].m.start = ms[b].m.start /\ a < b)
        rank(a) == Cardinality({b \in 1..Len(ms) : before(b, a)}) + 1
    IN  [k \in 1..Len(ms) |-> ms[CHOOSE a \in 1..Len(ms) : rank(a) = k]]

RECURSIVE BuildColumns(_, _, _, _, _)
\* the loop that builds the columns from the sorted matches, from match k on;
\* last_end is 0-based
BuildColumns(line, ms, k, last_end, columns) ==
    IF k > Len(ms) THEN [last_end |-> last_end, columns |-> columns]
    ELSE LET start   == ms[k].m.start - 1
             end     == ms[k].m.end - 1
             between == Strip(Slice(line, last_end, start))
             cols1   == IF start > last_end /\ between # <<>>
                        THEN Append(columns, between) ELSE columns
         IN  BuildColumns(line, ms, k + 1, end,
                          Append(cols1, Slice(line, start, end)))

\* words[:n]
Take(words, n) == SubSeq(words, 1, Min(n, Len(words)))

\* the columns built from the pattern matches, after "Add any remaining text"
PatternScan(line) ==
    LET WithRemaining(built) ==
            IF /\ built.last_end < Len(line)
               /\ Strip(Slice(line, built.last_end, Len(line))) # <<>>
            THEN Append(built.columns, Strip(Slice(line, built.last_end, Len(line))))
            ELSE built.columns
    IN  WithRemaining(BuildColumns(line,
            SortByStart(MatchesOfPats(split_patterns, line)), 1, 0, <<>>))

_intelligent_split(line, expected_cols) ==
    LET \* the first strategy that yields expected_cols parts, else the simple split
        PreferSplit(bySpaces, byTabs, columns) ==
            IF Len(bySpaces) = expected_cols THEN bySpaces
            ELSE IF Len(byTabs) = expected_cols THEN byTabs
            ELSE IF Len(columns) # expected_cols
            THEN Take(Split(Strip(line)), expected_cols)
            ELSE columns
    IN  PreferSplit(ReSplit(TwoSpaces, Strip(line)), SplitOn(<<"\t">>, Strip(line)),
            PatternScan(line))

\* does the loop over row_patterns try the pattern called pattern_name?
TriesPattern(table_type, pattern_name) ==
    Contains(pattern_name, table_type) \/ table_type = generic_table

\* The None returned for a blank line is written <<>>: the caller's
\* "if row and len(row) > 0" does not tell it from a row of no cells.
_extract_row(line, table_type, expected_cols) ==
    LET \* the matches of the row patterns the loop tries, in the order it tries them
        RowMatches ==
            Flatten([k \in 1..Len(row_patterns) |->
                IF table_type # None /\ TriesPattern(table_type, row_patterns[k])
                THEN MatchAt(CompiledRow(row_patterns[k]), line, 1) ELSE <<>>])
        \* list(match.groups()) of the first match, else the fallback
        RowFrom(ms) ==
            IF ms # <<>> THEN Groups(ms[1], line)
            ELSE _intelligent_split(line, expected_cols)
    IN  IF Strip(line) = <<>> THEN <<>> ELSE RowFrom(RowMatches)

RECURSIVE CollectRowsPastBoundary(_, _, _, _)
\* CollectRows with a section boundary skipped like a blank line, the loop
\* going on after it
CollectRowsPastBoundary(lines, idx, table_type, ncols) ==
    LET Kept(row) == IF Len(row) > 0 THEN <<row>> ELSE <<>>
    IN  IF idx >= Len(lines) THEN <<>>
        ELSE IF Strip(lines[idx + 1]) = <<>> \/ _is_section_boundary(Strip(lines[idx + 1]))
        THEN CollectRowsPastBoundary(lines, idx + 1, table_type, ncols)
        ELSE Kept(_extract_row(Strip(lines[idx + 1]), table_type, ncols))
             \o CollectRowsPastBoundary(lines, idx + 1, table_type, ncols)

RECURSIVE CollectRows(_, _, _, _)
\* the row loop of _extract_table_from_section from line idx (0-based) on
CollectRows(lines, idx, table_type, ncols) ==
    LET \* if row and len(row) > 0: rows.append(row)
        Kept(row) == IF Len(row) > 0 THEN <<row>> ELSE <<>>
    IN  IF idx >= Len(lines) THEN <<>>
        ELSE IF Strip(lines[idx + 1]) = <<>>
        THEN CollectRows(lines, idx + 1, table_type, ncols)
        ELSE IF _is_section_boundary(Strip(lines[idx + 1])) THEN <<>>
        ELSE Kept(_extract_row(Strip(lines[idx + 1]), table_type, ncols))
             \o CollectRows(lines, idx + 1, table_type, ncols)

\* the first loop of _extract_table_from_section: the first line that a header
\* pattern finds
ExplicitHeader(lines) ==
    LET HeaderOn(idx) ==
            [headers    |-> _extract_headers(lines[idx + 1]),
             idx        |-> idx,
             table_type |-> _determine_table_type(lines[idx + 1])]
        HeaderAt(found) ==
            IF found = {} THEN NoHeader ELSE HeaderOn(Nth(found, 1))
    IN  HeaderAt({idx \in 0..(Len(lines) - 1) :
            \E k \in 1..Len(header_patterns) :
                Search(CompiledHeader(header_patterns[k]), lines[idx + 1])})

\* the table_type given to Table(...): table_type or 'generic'
TypeOrDefault(table_type) == IF table_type = None THEN generic ELSE table_type

\* SectionHeader with the two detectors in the other order: the heuristic
\* first, the known header shapes only when it finds nothing
HeuristicBeforeExplicit(lines) ==
    LET HeaderFor(guessed) ==
            IF guessed.headers = <<>> THEN ExplicitHeader(lines) ELSE guessed
    IN  HeaderFor(_heuristic_header_detection(lines))

\* the header the assembler settles on for the lines of a section:
\* if not headers: headers, ... = self._heuristic_header_detection(lines)
SectionHeader(lines) ==
    LET HeaderFor(explicit) ==
            IF explicit.headers = <<>> THEN _heuristic_header_detection(lines)
            ELSE explicit
    IN  HeaderFor(ExplicitHeader(lines))

\* TableWith without the test on rows: the assembler returns a table whatever
\* the rows
TableWithAnyRows(section, hdr, rows) ==
    <<Table(hdr.headers, rows, section, TypeOrDefault(hdr.table_type))>>

\* if rows: return Table(...), else None
TableWith(section, hdr, rows) ==
    IF rows # <<>>
    THEN <<Table(hdr.headers, rows, section, TypeOrDefault(hdr.table_type))>>
    ELSE <<>>

\* <<>> for None, or <<table>> for the table of the section
_extract_table_from_section(section) ==
    LET TableUnder(lines, hdr) ==
            IF hdr.headers = <<>> THEN <<>>
            ELSE TableWith(section, hdr,
                     CollectRows(lines, hdr.idx + 1, hdr.table_type, Len(hdr.headers)))
    IN  TableUnder(SplitOn(<<"\n">>, section), SectionHeader(SplitOn(<<"\n">>, section)))

detect_and_extract_tables(s) ==
    LET \* the tables of the sections that have one, with the final filter on rows
        TablesOf(sections) ==
            SelectSeq(Flatten([i \in 1..Len(sections) |->
                                  _extract_table_from_section(sections[i])]),
                      LAMBDA t : Len(t.rows) > 0)
    IN  TablesOf(_split_into_sections(s))

----------------------------------------------------------------------------
(* qa_generator.py: the steps that coerce entity values to numbers *)

Digits == Cat(<<Plus(D), Star(Cat(<<Lit("_"), Plus(D)>>))>>)
Sign   == Opt(Chr({"+", "-"}))

\* the strings float() accepts
FloatPattern ==
    Pat(0, Cat(<<Bol, Star(WS), Sign,
                 Alt(<<StrCI(<<"i","n","f","i","n","i","t","y">>), StrCI(<<"i","n","f">>), StrCI(<<"n","a","n">>),
                       Cat(<<Alt(<<Cat(<<Digits, Opt(Cat(<<Lit("."), Opt(Digits)>>))>>),
                                   Cat(<<Lit("."), Digits>>)>>),
                             Opt(Cat(<<Chr({"e", "E"}), Sign, Plus(D)>>))>>)>>),
                 Star(WS), EndZ>>))

\* float(v) returns (v a str or None); otherwise it raises ValueError or TypeError
FloatOK(v) == v # None /\ MatchAt(FloatPattern, v, 1) # <<>>

\* float(v) = 0.0, for a v that float() accepts: no non-zero digit in the mantissa
FloatIsZero(v) ==
    LET exps     == {i \in 1..Len(v) : v[i] \in {"e", "E"}}
        mantissa == IF exps = {} \/ \E i \in 1..Len(v) : v[i] \in {"n", "N"}
                    THEN v ELSE SubSeq(v, 1, Nth(exps, 1) - 1)
    IN  /\ \E i \in 1..Len(mantissa) : mantissa[i] \in Digit
        /\ \A i \in 1..Len(mantissa) : mantissa[i] \in Digit => mantissa[i] = "0"

\* _format_template, the '{freq_calc}' substitution: TRUE when the try block
\* fails (float() raises, or the division is by zero) and the except clause
\* substitutes 'calculated frequency'
FreqCalcIsPlaceholder(entity) == ~FloatOK(entity.value) \/ FloatIsZero(entity.value)

\* number of (question, answer) templates of an entity type in self.templates
TemplateCount(type) ==
    CASE type = "pin" -> 10
      [] type \in {"register", "voltage", "timing", "bitfield"} -> 7
      [] type \in {"procedure_step", "error_code"} -> 5
      [] OTHER -> 0

RECURSIVE SumSeq(_)
SumSeq(ns) == IF ns = <<>> THEN 0 ELSE Head(ns) + SumSeq(Tail(ns))

\* generate_qa_pairs: every template of every entity is formatted inside a try
\* block, so the call returns; the result is summarised by the number of pairs
\* and the number of derived frequencies replaced by the placeholder
generate_qa_pairs(ents) ==
    [raised |-> FALSE,
     pairs  |-> SumSeq([i \in 1..Len(ents) |-> TemplateCount(ents[i].entity_type)]),
     placeholders |-> Len(SelectSeq(ents, LAMBDA e :
                          e.entity_type = "timing" /\ FreqCalcIsPlaceholder(e)))]

ContextWindow == 3

\* _group_related_entities: the slices entities[i:i+window] of more than one entity
_group_related_entities(ents, window) ==
    LET n      == (Len(ents) + window - 1) \div window
        groups == [g \in 1..n |->
                      SubSeq(ents, (g - 1) * window + 1, Min(g * window, Len(ents)))]
    IN  SelectSeq(groups, LAMBDA group : Len(group) > 1)

\* the voltage entities of a group, when there are several: those whose value
\* float() is applied to
ComparedVoltages(group) ==
    LET vs == SelectSeq(group, LAMBDA e : e.entity_type = "voltage")
    IN  IF Len(vs) > 1 THEN SelectSeq(vs, LAMBDA e : Truthy(e.value)) ELSE <<>>

\* _generate_comparison_questions raises ValueError: float() has no try around it
ComparisonRaises(group) ==
    \E i \in 1..Len(ComparedVoltages(group)) : ~FloatOK(ComparedVoltages(group)[i].value)

\* number of pairs _generate_comparison_questions returns
_generate_comparison_questions(group) ==
    IF Len(ComparedVoltages(group)) > 1 THEN 1 ELSE 0

\* number of pairs _generate_relationship_questions returns
_generate_relationship_questions(group) ==
    LET pins     == SelectSeq(group, LAMBDA e : e.entity_type = "pin")
        voltages == SelectSeq(group, LAMBDA e : e.entity_type = "voltage")
        powered  == SelectSeq(pins, LAMBDA e :
                        Contains(LowerStr(e.value), <<"p","o","w","e","r">>)
                        \/ Contains(LowerStr(e.value), <<"v","d","d">>))
    IN  IF pins # <<>> /\ voltages # <<>> THEN Len(powered) ELSE 0

generate_contextual_qa_pairs(ents) ==
    LET groups == _group_related_entities(ents, ContextWindow)
    IN  IF \E g \in 1..Len(groups) : ComparisonRaises(groups[g])
        THEN [raised |-> TRUE, pairs |-> 0, placeholders |-> 0]
        ELSE [raised |-> FALSE,
              pairs  |-> SumSeq([g \in 1..Len(groups) |->
                             _generate_comparison_questions(groups[g])
                             + _generate_relationship_questions(groups[g])]),
              placeholders |-> 0]

----------------------------------------------------------------------------
(* ocr_cleaner.py: segmentation of the cleaned text into chunks *)

ParagraphBreak == <<"\n","\n">>

RECURSIVE ChunkLoopUnguarded(_, _, _, _, _, _)
\* ChunkLoop without the test "and current_chunk": a chunk is closed whenever
\* the size is exceeded, even when nothing has been put in it
ChunkLoopUnguarded(paragraphs, k, chunk_size, chunks, current_chunk, current_size) ==
    IF k > Len(paragraphs)
    THEN IF current_chunk # <<>>
         THEN Append(chunks, Join(ParagraphBreak, current_chunk)) ELSE chunks
    ELSE LET para_size == Len(Split(paragraphs[k]))
         IN  IF current_size + para_size > chunk_size
             THEN ChunkLoopUnguarded(paragraphs, k + 1, chunk_size,
                      Append(chunks, Join(ParagraphBreak, current_chunk)),
                      <<paragraphs[k]>>, para_size)
             ELSE ChunkLoopUnguarded(paragraphs, k + 1, chunk_size, chunks,
                      Append(current_chunk, paragraphs[k]), current_size + para_size)

RECURSIVE ChunkLoop(_, _, _, _, _, _)
\* the loop over the paragraphs from paragraph k on, then the closing of the
\* last chunk
ChunkLoop(paragraphs, k, chunk_size, chunks, current_chunk, current_size) ==
    IF k > Len(paragraphs)
    THEN IF current_chunk # <<>>
         THEN Append(chunks, Join(ParagraphBreak, current_chunk)) ELSE chunks
    ELSE LET para_size == Len(Split(paragraphs[k]))
         IN  IF current_size + para_size > chunk_size /\ current_chunk # <<>>
             THEN ChunkLoop(paragraphs, k + 1, chunk_size,
                      Append(chunks, Join(ParagraphBreak, current_chunk)),
                      <<paragraphs[k]>>, para_size)
             ELSE ChunkLoop(paragraphs, k + 1, chunk_size, chunks,
                      Append(current_chunk, paragraphs[k]), current_size + para_size)

segment_into_chunks(s, chunk_size) ==
    ChunkLoop(SplitOn(ParagraphBreak, s), 1, chunk_size, <<>>, <<>>, 0)

----------------------------------------------------------------------------
(* process_dataset.py: the counters of a DatasetProcessor *)

\* DatasetProcessor.__init__: self.stats, the entity and table counters
InitStats ==
    [total_entities |-> 0, entities_by_type |-> <<>>,
     total_tables |-> 0, tables_by_type |-> <<>>]

\* by_type after the loop "if key not in by_type: by_type[key] = 0;
\* by_type[key] += 1" over the keys
CountInto(by_type, keys) ==
    [key \in DOMAIN by_type \cup Range(keys) |->
        (IF key \in DOMAIN by_type THEN by_type[key] ELSE 0)
        + Cardinality({i \in 1..Len(keys) : keys[i] = key})]

_update_entity_stats(st, ents) ==
    [st EXCEPT !.total_entities = Len(ents),
               !.entities_by_type =
                   CountInto(st.entities_by_type,
                             [i \in 1..Len(ents) |-> ents[i].entity_type])]

_update_table_stats(st, tbls) ==
    [st EXCEPT !.total_tables = Len(tbls),
               !.tables_by_type =
                   CountInto(st.tables_by_type,
                             [i \in 1..Len(tbls) |-> tbls[i].table_type])]

----------------------------------------------------------------------------
(* The texts the engine is run on *)

MaxRows  == 2      \* lines after the header line of a table section
MaxRaw   == 3      \* entities in a list handed to _deduplicate_entities directly
MaxCalls == 4      \* extractions on one extractor instance
MaxLines == 3      \* lines after the first line of a section handed to the assembler directly
MaxMarkers == 3    \* markers, paragraphs and blanks of a text handed to _split_into_sections directly
MaxParagraphs == 3 \* paragraphs of a text handed to segment_into_chunks directly

RegNames == {<<"C","O","N","T","R","O","L","_","R","E","G">>, <<"C","F","G">>, <<"A","_","B">>}
HexStrs  == {<<"1","2","3","4">>, <<"1","0">>, <<"1","f">>, <<"A","B">>}
PinNums  == {<<"1">>, <<"1","2">>}
PinFuncs == {<<"V","B","U","S">>, <<"U","S","B","_","D","P">>, <<"G","N","D">>}
PinRests == {<<>>, <<" ","5","V"," ","s","u","p","p","l","y">>, <<" ","D","A","T","A"," ","o","u","t">>, <<"\n","T","X"," ","o","n"," ","p","i","n"," ","3">>}

\* '<NAME> = 0x<hex>'
NamedRegisterText(name, hex) == name \o <<" ","="," ","0","x">> \o hex
\* '0x<a> = 0x<b>'
AddressValueText(a, b) == <<"0","x">> \o a \o <<" ","="," ","0","x">> \o b
\* 'Pin <n> = <FUNC> ...'
PinText(n, func, rest) == <<"P","i","n"," ">> \o n \o <<" ","="," ">> \o func \o rest

NamedRegisterTexts == {NamedRegisterText(n, h) : n \in RegNames, h \in HexStrs}
AddressValueTexts  == {AddressValueText(a, b) : a \in HexStrs, b \in HexStrs}
PinTexts == {PinText(n, f, r) : n \in PinNums, f \in PinFuncs, r \in PinRests}

QuantityTexts ==
    { <<"V","D","D"," ","="," ","1",".","8","V">>, <<"5","V"," ","a","n","d"," ","3","V">>, <<"I","N","F"," ","="," ","5","V">>,
      <<"V","D","D","_","C","O","R","E"," ","="," ","1",".","8","V"," ","±"," ","5","%","\n","V","D","D","_","I","O"," ","="," ","3",".","3","V"," ","±"," ","1","0","%">>,
      <<"P","i","n"," ","1"," ","="," ","V","D","D","_","I","O","\n","3",".","3","V"," ","5","V">>,
      <<"S","e","t","u","p"," ","t","i","m","e"," ","="," ","0","n","s">>, <<"S","e","t","u","p"," ","t","i","m","e"," ","="," ","1","0","n","s">>, <<"1","0"," ","n","s"," ","h","o","l","d"," ","t","i","m","e">>,
      <<"C","l","o","c","k"," ","="," ","8","M","H","z">>, <<"p","e","a","k"," ","c","u","r","r","e","n","t"," ","2","0"," ","m","A">> }

RepeatedTexts ==
    { <<"P","i","n"," ","1"," ","="," ","V","B","U","S","\n","P","i","n"," ","1"," ","="," ","V","B","U","S">>, <<"P","i","n"," ","1"," ","="," ","V","B","U","S","\n","P","i","n"," ","2"," ","="," ","G","N","D","\n","P","i","n"," ","1",":"," ","V","B","U","S">>,
      <<"R","e","g","i","s","t","e","r"," ","0","x","1","F",","," ","A","d","d","r","e","s","s",":"," ","0","x","1","f">>, <<"V","o","l","t","a","g","e"," ","="," ","5","V">>, <<"5","V"," ","3","V"," ","5","V">>,
      <<"B","i","t"," ","3"," ","="," ","E","N",","," ","B","i","t","s"," ","3"," ","="," ","E","N">>, <<"E","r","r","o","r"," ","5",":"," ","b","a","d","\n","E","r","r","o","r"," ","5"," ","="," ","b","a","d">>,
      <<"S","t","e","p"," ","1",":"," ","G","o",".","\n","S","t","e","p"," ","2",":"," ","S","t","o","p",".">> }

\* texts with entities of several categories
MixedTexts ==
    { <<"P","i","n"," ","1"," ","="," ","V","B","U","S","\n","E","r","r","o","r"," ","5",":"," ","b","a","d","\n","S","t","e","p"," ","1",":"," ","g","o">>,
      <<"B","i","t"," ","5"," ","="," ","E","N","\n","0","x","1","0"," ","="," ","0","x","2","0","\n","8","M","H","z"," ","5","m","A">>,
      <<"S","t","e","p"," ","1",":"," ","s","e","t"," ","V","D","D"," ","="," ","1",".","8","V">> }

\* a quantity followed by its cue phrase, at an offset that exceeds the
\* context window by the length of the phrase
PeakCurrentPhrase == <<"5","m","A"," ","p","e","a","k"," ","c","u","r","r","e","n","t">>
FarCueText ==
    [i \in 1..(ContextSize + Len(PeakCurrentPhrase)) |-> "."] \o PeakCurrentPhrase

\* quantities with a cue phrase before the match, after it, and after it
\* behind leading white space
CueTexts ==
    { <<" "," "," "," "," "," "," "," "," ","3",".","3","V"," ","r","a","i","l">>,
      <<" "," "," "," "," "," "," "," "," "," ","8","M","H","z"," ","c","l","o","c","k">>,
      <<" "," "," "," "," "," "," "," "," "," "," "," "," "," "," "," ","5","m","A"," ","p","e","a","k"," ","c","u","r","r","e","n","t">>,
      <<"3",".","3","V"," ","r","a","i","l">>,
      <<"8","M","H","z"," ","c","l","o","c","k">>,
      <<"5","m","A"," ","p","e","a","k"," ","c","u","r","r","e","n","t">>,
      <<"C","O","R","E"," ","s","u","p","p","l","y"," ","3",".","3","V">>,
      <<"C","P","U"," ","c","l","o","c","k"," ","8","M","H","z">>,
      <<"i","d","l","e"," ","c","u","r","r","e","n","t"," ","5","m","A">>,
      FarCueText }

\* the bit field notations
BitTexts ==
    { <<"B","i","t"," ","3"," ","="," ","1"," ","="," ","E","N">>,
      <<"B","i","t","s"," ","7","-","4"," ","="," ","M","O","D","E">>,
      <<"B","i","t"," ","[","7",":","4","]"," ","="," ","M","O","D","E">>,
      <<"B","i","t"," ","5"," ","="," ","E","N">> }

\* '<Word> = <value><unit>', the two-capture timing notations
TimingWords == { <<"T","i","m","i","n","g">>, <<"D","e","l","a","y">> }
TimingValues == { <<"5">>, <<"2",".","5">> }
TimingUnits == { <<"n","s">>, <<"m","s">> }
TimingText(word, value, gap, unit) == word \o <<" ","="," ">> \o value \o gap \o unit
TimingTexts ==
    {TimingText(w, v, g, u) : w \in TimingWords, v \in TimingValues, g \in {<<>>, <<" ">>},
                              u \in TimingUnits}

\* '<NAME> register = 0x<hex>', NAME with and without a digit
DigitRegNames == { <<"C","T","R","L","1">>, <<"C","T","R","L">>, <<"A","_","B">>, <<"T","2","_","C","F","G">> }
RegisterWordText(name, hex) == name \o <<" ","r","e","g","i","s","t","e","r"," ","="," ","0","x">> \o hex
RegisterHexes == { <<"4","0">>, <<"1","f">> }
RegisterWordTexts == {RegisterWordText(n, h) : n \in DigitRegNames, h \in RegisterHexes}

EntityTexts == NamedRegisterTexts \cup AddressValueTexts \cup PinTexts
               \cup QuantityTexts \cup RepeatedTexts
               \cup MixedTexts \cup CueTexts \cup BitTexts
               \cup TimingTexts \cup RegisterWordTexts

HeaderLines ==
    { <<"P","i","n"," ","N","a","m","e"," ","F","u","n","c","t","i","o","n">>, <<"N","a","m","e"," ","V","a","l","u","e"," ","D","e","s","c","r","i","p","t","i","o","n">>, <<"I","t","e","m"," ","S","p","e","c","i","f","i","c","a","t","i","o","n">>,
      <<"a","l","p","h","a"," ","b","e","t","a"," ","g","a","m","m","a">> }

RowLines ==
    { <<"1"," ","V","B","U","S"," ","5","V"," ","s","u","p","p","l","y">>, <<"a"," ","b">>, <<"[","7","]"," ","E","N"," ","R","W"," ","r","e","s","e","t">>, <<"0","x","1","0"," ","C","T","R","L"," ","c","o","n","t","r","o","l"," ","r","e","g">>,
      <<"x"," "," ","y"," "," ","z">>, <<"-","-","-","-","-">> }

RECURSIVE LinesUpTo(_)
\* the sequences of at most n row lines
LinesUpTo(n) ==
    IF n = 0 THEN {<<>>}
    ELSE LinesUpTo(n - 1)
         \cup {Append(ls, l) : ls \in {x \in LinesUpTo(n - 1) : Len(x) = n - 1},
                               l \in RowLines}

\* a header line and the lines after it, one per line of the section
TableText(header, lines) == Join(<<"\n">>, <<header>> \o lines)

TableTexts == {TableText(h, ls) : h \in HeaderLines, ls \in LinesUpTo(MaxRows)}

\* the first line of a section handed to _extract_table_from_section directly
SectionHeads ==
    { <<"P","i","n"," ","N","u","m","b","e","r"," ","S","i","g","n","a","l"," ","N","a","m","e"," ","D","e","s","c","r","i","p","t","i","o","n">>,
      <<"a","l","p","h","a"," ","b","e","t","a"," ","g","a","m","m","a">>,
      <<"i","n","t","r","o">> }

\* the lines after it: rows, section boundaries and an empty line
SectionLines ==
    { <<"1"," ","V","B","U","S"," ","5","V"," ","s","u","p","p","l","y">>,
      <<"2"," ","G","N","D"," ","g","r","o","u","n","d">>,
      <<"N","C"," ","N","C"," ","N","C">>,
      <<"-","-","-","-","-">>,
      <<>> }

RECURSIVE SectionLinesUpTo(_)
\* the sequences of at most n such lines
SectionLinesUpTo(n) ==
    IF n = 0 THEN {<<>>}
    ELSE SectionLinesUpTo(n - 1)
         \cup {Append(ls, l) : ls \in {x \in SectionLinesUpTo(n - 1) : Len(x) = n - 1},
                               l \in SectionLines}

SectionTexts == {TableText(h, ls) : h \in SectionHeads, ls \in SectionLinesUpTo(MaxLines)}

\* lines handed to _intelligent_split directly: a hex literal, an upper-case
\* identifier and free text, with white space between them
SplitHexes == { <<"0","x","1","0">>, <<"0","x","A","B">> }
SplitIdents == { <<"C","T","R","L">>, <<"A","_","B">> }
SplitFrees == { <<"c","o","n","t","r","o","l"," ","r","e","g">>, <<"E","n","a","b","l","e"," ","b","i","t"," ","3">>, <<"R","E","S","E","T"," ","v","a","l","u","e">>, <<"r","e","s","e","r","v","e","d">> }
SplitGaps == { <<" ">>, <<" "," ">>, <<" "," "," "," ">> }
SplitLine(hex, gap1, ident, gap2, free) == hex \o gap1 \o ident \o gap2 \o free
SplitLines ==
    {SplitLine(h, g1, n, g2, f) : h \in SplitHexes, g1 \in SplitGaps, n \in SplitIdents,
                                  g2 \in SplitGaps, f \in SplitFrees}
\* the column counts it is asked for
ColumnCounts == {2, 3}

\* lines handed to _extract_row directly: a pin row, a register row, a
\* specification row and bit field rows, with free text of several words
RowTexts ==
    { <<"1"," ","V","B","U","S"," ","U","S","B"," ","5"," ","v","o","l","t">>,
      <<"1"," ","V","B","U","S"," ","5","V"," ","s","u","p","p","l","y">>,
      <<"0","x","1","0"," ","C","T","R","L"," ","E","n","a","b","l","e"," ","b","i","t"," ","3">>,
      <<"V","D","D"," ","1",".","8"," ","V"," ","3",".","3"," ","V"," ","3",".","6"," ","V">>,
      <<"[","7",":","4","]"," ","M","O","D","E"," ","R","W"," ","m","o","d","e"," ","s","e","l","e","c","t"," ","2">>,
      <<"7"," ","E","N"," ","R","W"," ","r","e","s","e","t">> }
\* the table types and numbers of header cells it is called with
RowTableTypes == {pin_table, register_table, spec_table, bit_field_table, generic_table}
RowColumnCounts == {3, 5}

\* texts handed to _split_into_sections directly: the three marker kinds,
\* a paragraph break and white space, in every order
MarkerPieces ==
    { <<"T","a","b","l","e"," ","1",":"," ","a">>,
      <<"F","i","g","u","r","e"," ","2",":"," ","b">>,
      <<"\n","-","-","-","\n">>,
      <<"c","\n","\n","d">>,
      <<" "," ">> }

RECURSIVE PiecesUpTo(_)
\* the sequences of 1 to n pieces
PiecesUpTo(n) ==
    IF n = 0 THEN {<<>>}
    ELSE PiecesUpTo(n - 1)
         \cup {Append(ps, p) : ps \in {x \in PiecesUpTo(n - 1) : Len(x) = n - 1},
                               p \in MarkerPieces}

MarkerTexts == {Flatten(ps) : ps \in PiecesUpTo(MaxMarkers) \ {<<>>}}

\* sections in which a line of known header shape comes after lines that
\* satisfy the token-count rule of the heuristic detector
EarlyLines == <<<<"a","l","p","h","a"," ","b","e","t","a"," ","g","a","m","m","a">>, <<"1"," ","V","B","U","S"," ","5","V"," ","s","u","p","p","l","y">>, <<"2"," ","G","N","D"," ","g","r","o","u","n","d">>>>
LateHeaders ==
    { <<"P","i","n"," ","N","a","m","e"," ","F","u","n","c","t","i","o","n">>,
      <<"N","a","m","e"," ","V","a","l","u","e"," ","D","e","s","c","r","i","p","t","i","o","n">>,
      <<"R","e","g","i","s","t","e","r"," ","A","d","d","r","e","s","s"," ","D","e","s","c","r","i","p","t","i","o","n">> }
LateRows == { <<>>, <<<<"3"," ","T","X"," ","o","u","t">>>>, <<<<"3"," ","T","X"," ","o","u","t">>, <<"4"," ","R","X"," ","i","n">>>> }
LateHeaderTexts ==
    {Join(<<"\n">>, EarlyLines \o <<h>> \o rows) : h \in LateHeaders, rows \in LateRows}

\* lines with a decimal number handed to _intelligent_split directly
DecimalLines == { <<"1",".","5">>, <<"V","D","D"," ","1",".","5">>, <<"0","x","1","0"," ","C","T","R","L"," ","1",".","5">> }

\* texts handed to segment_into_chunks directly: paragraphs of 0 to 3 words,
\* one of them of two lines, between blank lines
Paragraphs == { <<"a"," ","b">>, <<"c">>, <<>>, <<"d"," ","e"," ","f">>, <<"g","\n","h">> }

RECURSIVE ParagraphsUpTo(_)
\* the sequences of 1 to n paragraphs
ParagraphsUpTo(n) ==
    IF n = 0 THEN {<<>>}
    ELSE ParagraphsUpTo(n - 1)
         \cup {Append(ps, p) : ps \in {x \in ParagraphsUpTo(n - 1) : Len(x) = n - 1},
                               p \in Paragraphs}

WholeTexts == {Join(ParagraphBreak, ps) : ps \in ParagraphsUpTo(MaxParagraphs) \ {<<>>}}
\* the chunk sizes it is asked for, in words
ChunkSizes == {1, 2, 4}

Texts == EntityTexts \cup TableTexts

\* the texts one extractor instance is run on again and again
RepeatTexts ==
    { <<"P","i","n"," ","1"," ","="," ","V","B","U","S","\n","P","i","n"," ","1"," ","="," ","V","B","U","S">>, <<"C","T","R","L"," ","r","e","g","i","s","t","e","r"," ","="," ","0","x","4","0",","," ","5","V">>, <<"P","i","n"," ","2"," ","="," ","G","N","D">> }

\* entities as _deduplicate_entities sees them: only the key fields matter
KeyedEntity(type, name, value) ==
    Entity(type, name, value, None, <<>>, [k |-> <<>>])

EntityPool ==
    {KeyedEntity(t, n, v) : t \in {"pin", "register"}, n \in {<<"A">>},
                            v \in {<<"x">>, <<"y">>}}

RECURSIVE ListsUpTo(_)
ListsUpTo(n) ==
    IF n = 0 THEN {<<>>}
    ELSE ListsUpTo(n - 1)
         \cup {Append(es, e) : es \in {x \in ListsUpTo(n - 1) : Len(x) = n - 1},
                               e \in EntityPool}

----------------------------------------------------------------------------
(* The pass over one chunk (process_dataset.py, process_text_file), and the *)
(* direct use of the extractor                                              *)

NoQA == [raised |-> FALSE, pairs |-> 0, placeholders |-> 0]

InitEngine ==
    /\ patterns = InitPatterns
    /\ header_patterns = InitHeaderPatterns
    /\ row_patterns = InitRowPatterns
    /\ entities = <<>>
    /\ tables = <<>>
    /\ qa = NoQA
    /\ calls = <<>>
    /\ cells = <<>>
    /\ stats = InitStats

\* a chunk about to be processed, or a list about to be deduplicated
Init ==
    /\ InitEngine
    /\ threads = <<>>
    /\ \/ pc = "start" /\ text \in Texts /\ raw = <<>>
       \/ pc = "dedup" /\ text = <<>> /\ raw \in ListsUpTo(MaxRaw)
       \/ pc = "section" /\ text \in SectionTexts \cup LateHeaderTexts /\ raw = <<>>
       \/ pc = "line" /\ text \in SplitLines \cup DecimalLines /\ raw = <<>>
       \/ pc = "row" /\ text \in RowTexts /\ raw = <<>>
       \/ pc = "markers" /\ text \in MarkerTexts /\ raw = <<>>
       \/ pc = "whole" /\ text \in WholeTexts /\ raw = <<>>

\* chunk_entities = self.extractor.extract_all_entities(chunk)
ExtractAllEntities ==
    /\ pc = "start"
    /\ raw' = raw_all_entities(text)
    /\ entities' = extract_all_entities(text)
    /\ calls' = Append(calls, [text |-> text, entities |-> entities'])
    /\ pc' = "extracted"
    /\ UNCHANGED <<stats, cells, threads, patterns, header_patterns, row_patterns, text, tables, qa>>

\* chunk_tables = self.table_reconstructor.detect_and_extract_tables(chunk)
DetectAndExtractTables ==
    /\ pc = "extracted"
    /\ tables' = detect_and_extract_tables(text)
    /\ pc' = "tabled"
    /\ UNCHANGED <<stats, cells, threads, patterns, header_patterns, row_patterns, text, raw, entities, qa,
                   calls>>

\* entity_qa = self.qa_generator.generate_qa_pairs(all_entities)
GenerateQAPairs ==
    /\ pc = "tabled"
    /\ qa' = generate_qa_pairs(entities)
    /\ pc' = "generated"
    /\ UNCHANGED <<stats, cells, threads, patterns, header_patterns, row_patterns, text, raw, entities,
                   tables, calls>>

\* contextual_qa = self.qa_generator.generate_contextual_qa_pairs(all_entities):
\* an exception it raises is caught nowhere and ends the pass
GenerateContextualQAPairs ==
    /\ pc = "generated"
    /\ qa' = generate_contextual_qa_pairs(entities)
    /\ pc' = IF qa'.raised THEN "aborted" ELSE "done"
    /\ UNCHANGED <<stats, cells, threads, patterns, header_patterns, row_patterns, text, raw, entities,
                   tables, calls>>

\* extractor._deduplicate_entities(raw), called on a list directly
DeduplicateEntities ==
    /\ pc = "dedup"
    /\ entities' = _deduplicate_entities(raw)
    /\ pc' = "deduped"
    /\ UNCHANGED <<stats, cells, threads, patterns, header_patterns, row_patterns, text, raw, tables, qa,
                   calls>>

\* reconstructor._extract_table_from_section(section), called on a section
ExtractTableFromSection ==
    /\ pc = "section"
    /\ tables' = _extract_table_from_section(text)
    /\ pc' = "sectioned"
    /\ UNCHANGED <<stats, cells, threads, patterns, header_patterns, row_patterns, text, raw,
                   entities, qa, calls>>

\* reconstructor._intelligent_split(line, expected_cols), called on a line
IntelligentSplit ==
    /\ pc = "line"
    /\ \E expected_cols \in ColumnCounts :
          cells' = [expected_cols |-> expected_cols,
                    columns |-> _intelligent_split(text, expected_cols)]
    /\ pc' = "split"
    /\ UNCHANGED <<stats, threads, patterns, header_patterns, row_patterns, text, raw, entities,
                   tables, qa, calls>>

\* reconstructor._extract_row(line, table_type, expected_cols), called on a line
ExtractRow ==
    /\ pc = "row"
    /\ \E table_type \in RowTableTypes, expected_cols \in RowColumnCounts :
          cells' = [table_type |-> table_type,
                    expected_cols |-> expected_cols,
                    columns |-> _extract_row(text, table_type, expected_cols)]
    /\ pc' = "rowed"
    /\ UNCHANGED <<stats, threads, patterns, header_patterns, row_patterns, text, raw, entities,
                   tables, qa, calls>>

\* reconstructor._split_into_sections(text), called on a text: the list
\* `sections` before the fallback, as offsets, and the list returned
SplitSections ==
    /\ pc = "markers"
    /\ cells' = [marked |-> MarkedSpans(text), sections |-> _split_into_sections(text)]
    /\ pc' = "sliced"
    /\ UNCHANGED <<stats, threads, patterns, header_patterns, row_patterns, text, raw, entities,
                   tables, qa, calls>>

\* cleaner.segment_into_chunks(text, chunk_size), called on a text
SegmentIntoChunks ==
    /\ pc = "whole"
    /\ \E chunk_size \in ChunkSizes :
          cells' = [chunk_size |-> chunk_size,
                    chunks |-> segment_into_chunks(text, chunk_size)]
    /\ pc' = "chunked"
    /\ UNCHANGED <<stats, threads, patterns, header_patterns, row_patterns, text, raw, entities,
                   tables, qa, calls>>

Next ==
    \/ ExtractAllEntities
    \/ DetectAndExtractTables
    \/ GenerateQAPairs
    \/ GenerateContextualQAPairs
    \/ DeduplicateEntities
    \/ ExtractTableFromSection
    \/ IntelligentSplit
    \/ ExtractRow
    \/ SplitSections
    \/ SegmentIntoChunks

Spec == Init /\ [][Next]_vars

\* One extractor instance used for several chunks in turn
InitRepeat ==
    /\ InitEngine
    /\ threads = <<>>
    /\ pc = "start" /\ text \in RepeatTexts /\ raw = <<>>

\* the loop over the chunks takes the next chunk
NextChunk ==
    /\ pc = "extracted"
    /\ Len(calls) < MaxCalls
    /\ text' \in RepeatTexts
    /\ pc' = "start"
    /\ UNCHANGED <<stats, cells, threads, patterns, header_patterns, row_patterns, raw, entities, tables, qa,
                   calls>>

NextRepeat ==
    \/ ExtractAllEntities
    \/ NextChunk

SpecRepeat == InitRepeat /\ [][NextRepeat]_vars

----------------------------------------------------------------------------
(* One DatasetProcessor used for several files in turn *)

MaxFiles == 3      \* files processed by one DatasetProcessor
DefaultChunkSize == 1000

\* the cleaned text of the files and the chunk_size they are processed with:
\* no entity, an entity, a table, two paragraphs in one chunk and in two
Files ==
    { [cleaned_text |-> <<>>, chunk_size |-> DefaultChunkSize],
      [cleaned_text |-> <<"P","i","n"," ","1"," ","="," ","V","B","U","S">>, chunk_size |-> DefaultChunkSize],
      [cleaned_text |-> <<"P","i","n"," ","N","a","m","e"," ","F","u","n","c","t","i","o","n","\n","1"," ","T","X"," ","o","u","t">>,
       chunk_size |-> DefaultChunkSize],
      [cleaned_text |-> <<"P","i","n"," ","2"," ","="," ","G","N","D","\n","\n","C","T","R","L"," ","r","e","g","i","s","t","e","r"," ","="," ","0","x","4","0">>,
       chunk_size |-> DefaultChunkSize],
      [cleaned_text |-> <<"P","i","n"," ","2"," ","="," ","G","N","D","\n","\n","C","T","R","L"," ","r","e","g","i","s","t","e","r"," ","="," ","0","x","4","0">>, chunk_size |-> 2] }

InitDataset ==
    /\ InitEngine
    /\ threads = <<>>
    /\ pc = "idle" /\ text = <<>> /\ raw = <<>>

\* self._update_entity_stats(all_entities); self._update_table_stats(all_tables)
UpdateStats(st, all_entities, all_tables) ==
    _update_table_stats(_update_entity_stats(st, all_entities), all_tables)

\* processor.process_text_file(input_path, output_path, chunk_size) on a file
\* whose cleaned text is file.cleaned_text: the chunks, the entities and tables
\* of all chunks, the counters, then the Q&A generation, whose exception, if
\* any, reaches the caller with the counters already updated
ProcessTextFile ==
    /\ pc = "idle"
    /\ Len(calls) < MaxFiles
    /\ \E file \in Files :
          LET Process(chunks) ==
                  LET Finish(all_entities, all_tables) ==
                          /\ entities' = all_entities
                          /\ tables' = all_tables
                          /\ stats' = UpdateStats(stats, all_entities, all_tables)
                          /\ qa' = generate_contextual_qa_pairs(all_entities)
                          /\ calls' = Append(calls, [text |-> file.cleaned_text,
                                                     entities |-> all_entities])
                  IN  Finish(Flatten([i \in 1..Len(chunks) |->
                                         extract_all_entities(chunks[i])]),
                             Flatten([i \in 1..Len(chunks) |->
                                         detect_and_extract_tables(chunks[i])]))
          IN  /\ text' = file.cleaned_text
              /\ Process(segment_into_chunks(file.cleaned_text, file.chunk_size))
    /\ pc' = "idle"
    /\ UNCHANGED <<cells, threads, patterns, header_patterns, row_patterns, raw>>

NextDataset == ProcessTextFile

SpecDataset == InitDataset /\ [][NextDataset]_vars

----------------------------------------------------------------------------
(* Several invocations running at once on one extractor and one             *)
(* reconstructor.  Each invocation has its own frame: the text it was given, *)
(* its position, and the local list it builds.  The instances' pattern sets  *)
(* are the state the invocations share.                                      *)

Workers == {"w1", "w2"}

ConcurrentTexts ==
    { <<"P","i","n"," ","1"," ","="," ","V","B","U","S","\n","E","r","r","o","r"," ","5",":"," ","b","a","d","\n","S","t","e","p"," ","1",":"," ","g","o">>,
      <<"P","i","n"," ","N","a","m","e"," ","F","u","n","c","t","i","o","n","\n","1"," ","V","B","U","S"," ","5","V"," ","s","u","p","p","l","y","\n","\n","N","a","m","e"," ","V","a","l","u","e"," ","D","e","s","c","r","i","p","t","i","o","n","\n","0","x","1","0"," ","C","T","R","L"," ","c","o","n","t","r","o","l"," ","r","e","g">> }

\* the frame of an invocation of op on a text, at its first statement
Frame(op, s) ==
    [op |-> op, text |-> s, step |-> 0, sections |-> <<>>, acc |-> <<>>,
     result |-> <<>>, done |-> FALSE]

InitConcurrent ==
    /\ InitEngine
    /\ pc = "concurrent" /\ text = <<>> /\ raw = <<>>
    /\ threads \in [Workers -> {Frame(op, s) : op \in {"extract", "detect"},
                                              s \in ConcurrentTexts}]

\* the k-th entities.extend(...) of extract_all_entities
CategoryExtract(k, s) ==
    CASE k = 1 -> extract_pin_info(s)
      [] k = 2 -> extract_register_info(s)
      [] k = 3 -> extract_voltage_specs(s)
      [] k = 4 -> extract_timing_specs(s)
      [] k = 5 -> extract_frequency_specs(s)
      [] k = 6 -> extract_current_specs(s)
      [] k = 7 -> extract_bitfield_info(s)
      [] k = 8 -> extract_error_codes(s)
      [] k = 9 -> extract_procedures(s)

\* a list that extends the list of one fixed worker, as if the list were an
\* attribute of the instance
AccumulatorOfInstance(t) == threads[CHOOSE w \in Workers : TRUE].acc

\* the list an invocation extends: the local variable of its own frame
\* (entities = [], tables = [])
AccumulatorOf(t) == threads[t].acc

\* entities.extend(self.extract_<category>(text)), one category per step
ExtractCategory(t) ==
    /\ threads[t].op = "extract" /\ ~threads[t].done
    /\ threads[t].step < 9
    /\ threads' = [threads EXCEPT
          ![t].acc  = AccumulatorOf(t) \o CategoryExtract(threads[t].step + 1, threads[t].text),
          ![t].step = threads[t].step + 1]
    /\ UNCHANGED <<stats, cells, patterns, header_patterns, row_patterns, pc, text, raw,
                   entities, tables, qa, calls>>

\* return entities
ReturnEntities(t) ==
    /\ threads[t].op = "extract" /\ ~threads[t].done
    /\ threads[t].step = 9
    /\ threads' = [threads EXCEPT ![t].result = threads[t].acc, ![t].done = TRUE]
    /\ UNCHANGED <<stats, cells, patterns, header_patterns, row_patterns, pc, text, raw,
                   entities, tables, qa, calls>>

\* sections = self._split_into_sections(text)
SplitIntoSections(t) ==
    /\ threads[t].op = "detect" /\ ~threads[t].done
    /\ threads[t].step = 0
    /\ threads' = [threads EXCEPT
          ![t].sections = _split_into_sections(threads[t].text),
          ![t].step     = 1]
    /\ UNCHANGED <<stats, cells, patterns, header_patterns, row_patterns, pc, text, raw,
                   entities, tables, qa, calls>>

\* one turn of the loop over the sections:
\* table = self._extract_table_from_section(section), appended if it has rows
ExtractSectionTable(t) ==
    /\ threads[t].op = "detect" /\ ~threads[t].done
    /\ threads[t].step >= 1 /\ threads[t].step <= Len(threads[t].sections)
    /\ threads' = [threads EXCEPT
          ![t].acc  = AccumulatorOf(t)
                      \o SelectSeq(_extract_table_from_section(
                                       threads[t].sections[threads[t].step]),
                                   LAMBDA tb : Len(tb.rows) > 0),
          ![t].step = threads[t].step + 1]
    /\ UNCHANGED <<stats, cells, patterns, header_patterns, row_patterns, pc, text, raw,
                   entities, tables, qa, calls>>

\* return tables
ReturnTables(t) ==
    /\ threads[t].op = "detect" /\ ~threads[t].done
    /\ threads[t].step = Len(threads[t].sections) + 1
    /\ threads' = [threads EXCEPT ![t].result = threads[t].acc, ![t].done = TRUE]
    /\ UNCHANGED <<stats, cells, patterns, header_patterns, row_patterns, pc, text, raw,
                   entities, tables, qa, calls>>

NextConcurrent ==
    \E t \in Workers :
        \/ ExtractCategory(t)
        \/ ReturnEntities(t)
        \/ SplitIntoSections(t)
        \/ ExtractSectionTable(t)
        \/ ReturnTables(t)

SpecConcurrent == InitConcurrent /\ [][NextConcurrent]_vars

----------------------------------------------------------------------------
(* Properties of the table reconstructor *)

\* detect_and_extract_tables has run on the chunk
TablesDetected == pc \in {"tabled", "generated", "done", "aborted"}

\* extract_all_entities has run on the chunk
EntitiesExtracted == pc \in {"extracted", "tabled", "generated", "done", "aborted"}

LinesOf(section) == SplitOn(<<"\n">>, section)

\* the rows that survive below a header
SurvivingRows(section, hdr) ==
    CollectRows(LinesOf(section), hdr.idx + 1, hdr.table_type, Len(hdr.headers))

\* C1: for every table returned by detect_and_extract_tables, every row has
\* exactly as many cells as the table has headers, whichever extraction path
\* produced the row.
C1_RowsMatchHeaders ==
    \A t \in 1..Len(tables) : \A r \in 1..Len(tables[t].rows) :
        Len(tables[t].rows[r]) = Len(tables[t].headers)

\* C2: every table returned by detect_and_extract_tables, and every non-None
\* result of _extract_table_from_section, has at least one row; a section whose
\* header is found but from which no row survives contributes no table.
C2_TablesHaveRows ==
    /\ \A t \in 1..Len(tables) : Len(tables[t].rows) >= 1
    /\ pc = "tabled" =>
          \A section \in Range(_split_into_sections(text)) :
              /\ \A tb \in Range(_extract_table_from_section(section)) :
                    Len(tb.rows) >= 1
              /\ ( /\ SectionHeader(LinesOf(section)).headers # <<>>
                   /\ SurvivingRows(section, SectionHeader(LinesOf(section))) = <<>> )
                 => \A t \in 1..Len(tables) : tables[t].context # section

\* a section of several lines whose header was found, none of whose lines gave
\* a row, and no table returned
C2_Witness ==
    /\ pc = "tabled"
    /\ tables = <<>>
    /\ \E section \in Range(_split_into_sections(text)) :
          /\ Len(LinesOf(section)) > 1
          /\ SectionHeader(LinesOf(section)).headers # <<>>
          /\ SurvivingRows(section, SectionHeader(LinesOf(section))) = <<>>

\* C3: every cell of every row of every returned table is a string; no cell
\* is None, including rows built from a row pattern with an optional group.
C3_CellsAreStrings ==
    \A t \in 1..Len(tables) : \A r \in 1..Len(tables[t].rows) :
        \A c \in 1..Len(tables[t].rows[r]) :
            tables[t].rows[r][c] # None /\ IsStr(tables[t].rows[r][c])

TableTypes ==
    {pin_table, register_table, bit_field_table, spec_table, error_table, generic_table}

\* C4: the table_type of every returned table is one of pin_table,
\* register_table, bit_field_table, spec_table, error_table, generic_table, and
\* never the assembler's default 'generic', on the explicit-header path and on
\* the heuristic path.
C4_TableTypeKnown ==
    \A t \in 1..Len(tables) :
        tables[t].table_type \in TableTypes /\ tables[t].table_type # generic

\* a table whose header no header pattern found (the heuristic path) and whose
\* content gave no hint of its type
C4_Witness ==
    /\ TablesDetected
    /\ \E t \in 1..Len(tables) :
          /\ ExplicitHeader(LinesOf(tables[t].context)).headers = <<>>
          /\ tables[t].table_type = generic_table

----------------------------------------------------------------------------
(* Properties of the entity extractor *)

HasEntity(ents, type, name, value) ==
    \E k \in 1..Len(ents) :
        ents[k].entity_type = type /\ ents[k].name = name /\ ents[k].value = value

\* C5: for every text '<NAME> = 0x<hex>' with NAME an upper-case identifier
\* that is alphabetic once underscores are stripped, extract_register_info and
\* extract_all_entities return a register entity named NAME with value
\* '0x<HEX>'.
C5_NamedRegister ==
    \A name \in RegNames, hex \in HexStrs :
        (EntitiesExtracted /\ text = NamedRegisterText(name, hex)) =>
            /\ HasEntity(extract_register_info(text), "register", name,
                         <<"0","x">> \o UpperStr(hex))
            /\ HasEntity(entities, "register", name, <<"0","x">> \o UpperStr(hex))

\* C6: for every text '0x<a> = 0x<b>', a and b any hex digit strings,
\* extract_register_info returns a register entity named 'Register 0x<A>' with
\* value '0x<B>' and metadata address '0x<A>'.
C6_AddressValue ==
    \A a \in HexStrs, b \in HexStrs :
        (EntitiesExtracted /\ text = AddressValueText(a, b)) =>
            \E k \in 1..Len(extract_register_info(text)) :
                LET e == extract_register_info(text)[k]
                IN  /\ e.entity_type = "register"
                    /\ e.name = <<"R","e","g","i","s","t","e","r"," ","0","x">> \o UpperStr(a)
                    /\ e.value = <<"0","x">> \o UpperStr(b)
                    /\ e.metadata.address = <<"0","x">> \o UpperStr(a)

\* a pin entity for pin n whose value contains func
IsPin(e, n, func) ==
    /\ e.entity_type = "pin"
    /\ e.name = <<"P","i","n"," ">> \o n
    /\ Contains(e.value, func)
    /\ e.metadata.pin_number = n

\* C7: for every text 'Pin <n> = <FUNC> ...' with n a decimal number and FUNC
\* an upper-case identifier, extract_pin_info returns a pin entity with name
\* 'Pin <n>', a value containing FUNC, and metadata pin_number equal to n.
C7_PinAssignment ==
    \A n \in PinNums, func \in PinFuncs, rest \in PinRests :
        (EntitiesExtracted /\ text = PinText(n, func, rest)) =>
            /\ \E k \in 1..Len(extract_pin_info(text)) :
                  IsPin(extract_pin_info(text)[k], n, func)
            /\ \E k \in 1..Len(entities) : IsPin(entities[k], n, func)

\* "Pin 1 = VBUS 5V supply" has been extracted
C7_Witness ==
    /\ EntitiesExtracted
    /\ text = PinText(<<"1">>, <<"V","B","U","S">>, <<" ","5","V"," ","s","u","p","p","l","y">>)
    /\ \E k \in 1..Len(entities) :
          IsPin(entities[k], <<"1">>, <<"V","B","U","S">>) /\ entities[k].value = <<"V","B","U","S">>

\* C8: no step of entity extraction followed by Q&A generation aborts the
\* pass on a value-coercion failure; no exception propagates to the caller.
C8_NoAbort == pc # "aborted" /\ ~qa.raised

\* the dedup key
Key(e) == <<e.entity_type, e.name, e.value>>

\* the positions of ents that hold the first occurrence of their key
FirstOccurrences(ents) ==
    {i \in 1..Len(ents) : \A j \in 1..(i - 1) : Key(ents[j]) # Key(ents[i])}

CategoryOrder ==
    <<"pin", "register", "voltage", "timing", "frequency", "current", "bitfield",
      "error_code", "procedure_step">>

CategoryRank(type) == CHOOSE k \in 1..Len(CategoryOrder) : CategoryOrder[k] = type

\* C11: in the list returned by extract_all_entities the entities are grouped
\* by category in the order pin, register, voltage, timing, frequency, current,
\* bitfield, error_code, procedure_step: no entity of an earlier category
\* follows one of a later category, and no entity has another category.
C11_CategoryOrder ==
    EntitiesExtracted =>
        /\ \A i \in 1..Len(entities) : entities[i].entity_type \in Range(CategoryOrder)
        /\ \A i, j \in 1..Len(entities) :
              i < j => CategoryRank(entities[i].entity_type)
                          <= CategoryRank(entities[j].entity_type)

\* a pin, an error code and a procedure step extracted from one text, the
\* error code before the procedure step
C11_Witness ==
    /\ EntitiesExtracted
    /\ Len(entities) = 3
    /\ entities[1].entity_type = "pin"
    /\ entities[2].entity_type = "error_code"
    /\ entities[3].entity_type = "procedure_step"

----------------------------------------------------------------------------
(* Properties of the assembler called on one section *)

\* a line of 5 or more dashes
IsDashes(line) == Len(line) >= 5 /\ \A c \in 1..Len(line) : line[c] = "-"

\* the rows C12 expects below the header hdr of lines: of the lines after the
\* header and before the first section boundary, those that are not blank,
\* turned into rows, the rows of no cell left out, in the order of the lines
RowsBeforeBoundary(lines, hdr) ==
    LET after == (hdr.idx + 2)..Len(lines)
        FirstOf(boundaries) ==
            IF boundaries = {} THEN Len(lines) + 1 ELSE Nth(boundaries, 1)
        RowsAt(kept, rowOf) == [k \in 1..Cardinality(kept) |-> rowOf[Nth(kept, k)]]
        UpTo(stop, rowOf) ==
            RowsAt({i \in after : i < stop /\ Strip(lines[i]) # <<>> /\ rowOf[i] # <<>>},
                   rowOf)
    IN  UpTo(FirstOf({i \in after : _is_section_boundary(Strip(lines[i]))}),
             [i \in 1..Len(lines) |->
                 _extract_row(Strip(lines[i]), hdr.table_type, Len(hdr.headers))])

\* the rows of the table returned for a section, none if no table is returned
ReturnedRows == IF tables = <<>> THEN <<>> ELSE tables[1].rows

\* C12: row collection stops for good at the first section-boundary line
\* after the header, in particular at a line of 5 or more dashes: that line
\* and every later line give no row, every non-blank line between the header
\* and the boundary that yields at least one cell is kept as a row, in order,
\* and blank lines are skipped without stopping.
C12_StopsAtBoundary ==
    LET Holds(lines, hdr) ==
            hdr.headers # <<>> =>
                /\ ReturnedRows = RowsBeforeBoundary(lines, hdr)
                /\ \A i \in (hdr.idx + 2)..Len(lines) :
                      IsDashes(lines[i]) => Len(ReturnedRows) <= i - hdr.idx - 2
    IN  pc = "sectioned" => Holds(LinesOf(text), SectionHeader(LinesOf(text)))

\* a section with a row, then a line of dashes followed by a line that would
\* have given a row: the table returned has the first row only
C12_Witness ==
    /\ pc = "sectioned"
    /\ Len(LinesOf(text)) = 4
    /\ Strip(LinesOf(text)[2]) # <<>>
    /\ IsDashes(LinesOf(text)[3])
    /\ ~_is_section_boundary(LinesOf(text)[4]) /\ Strip(LinesOf(text)[4]) # <<>>
    /\ Len(tables) = 1
    /\ Len(tables[1].rows) = 1

PinNumberHeader == <<"P","i","n"," ","N","u","m","b","e","r"," ","S","i","g","n","a","l"," ","N","a","m","e"," ","D","e","s","c","r","i","p","t","i","o","n">>

\* C13: a section containing the line "Pin Number Signal Name Description"
\* followed by at least 3 lines, each of at least 3 white-space tokens, always
\* yields a table, of type pin_table, whose headers are those of that line.
C13_PinNumberTable ==
    LET Holds(lines) ==
            (\E i \in 1..(Len(lines) - 3) :
                /\ lines[i] = PinNumberHeader
                /\ \A j \in (i + 1)..(i + 3) : Len(Split(lines[j])) >= 3)
            => /\ Len(tables) = 1
               /\ tables[1].table_type = pin_table
               /\ tables[1].headers = Split(PinNumberHeader)
    IN  pc = "sectioned" => Holds(LinesOf(text))

----------------------------------------------------------------------------
(* Properties of the intelligent split *)

\* C14: for every line made of one hex literal, one upper-case identifier and
\* trailing free text, separated by any amounts of white space,
\* _intelligent_split with expected column count 3 returns exactly the three
\* cells hex literal, identifier, free text, in that order, whatever the
\* spacing and whatever words or digits the free text contains.
C14_ThreeCells ==
    \A h \in SplitHexes, g1 \in SplitGaps, n \in SplitIdents, g2 \in SplitGaps,
       f \in SplitFrees :
        ( /\ pc = "split"
          /\ cells.expected_cols = 3
          /\ text = SplitLine(h, g1, n, g2, f) ) => cells.columns = <<h, n, f>>

\* no line of lines has a known header shape
NoHeaderShape(lines) ==
    \A i \in 1..Len(lines) : \A k \in 1..Len(header_patterns) :
        ~Search(CompiledHeader(header_patterns[k]), lines[i])

\* the lines among the 3 after line i whose token count is within 1 of n
SimilarAfter(lines, i, n) ==
    {j \in (i + 1)..Min(i + 3, Len(lines)) :
        Len(Split(lines[j])) - n \in {-1, 0, 1}}

\* no line of 2 to 6 tokens is followed, within the next 3 lines, by at least
\* 2 lines whose token count is within 1 of its own
NoSimilarRun(lines) ==
    \A i \in 1..Len(lines) :
        ~ /\ Len(Split(lines[i])) \in 2..6
          /\ Cardinality(SimilarAfter(lines, i, Len(Split(lines[i])))) >= 2

\* C15: a section in which no line matches a known header shape and no line
\* of 2 to 6 tokens is followed, within the next 3 lines, by at least 2 lines
\* whose token count is within 1 of its own yields no table.
C15_NoHeaderNoTable ==
    LET Holds(lines) == (NoHeaderShape(lines) /\ NoSimilarRun(lines)) => tables = <<>>
    IN  pc = "sectioned" => Holds(LinesOf(text))

\* a section without a header shape in which a line of 2 to 6 tokens is
\* followed by exactly one similar line, and no table returned
C15_Witness ==
    LET Reached(lines) ==
            /\ NoHeaderShape(lines) /\ NoSimilarRun(lines)
            /\ \E i \in 1..Len(lines) :
                  /\ Len(Split(lines[i])) \in 2..6
                  /\ Cardinality(SimilarAfter(lines, i, Len(Split(lines[i])))) = 1
    IN  pc = "sectioned" /\ tables = <<>> /\ Reached(LinesOf(text))


\* line i of lines has a known header shape
HasHeaderShape(lines, i) ==
    \E k \in 1..Len(header_patterns) : Search(CompiledHeader(header_patterns[k]), lines[i])

\* line i of lines satisfies the token-count rule of the heuristic detector
SatisfiesHeuristic(lines, i) ==
    /\ Len(Split(lines[i])) \in 2..6
    /\ Cardinality(SimilarAfter(lines, i, Len(Split(lines[i])))) >= 2

\* the table returned has line i of lines as its header: its cells and the type
\* of its shape, with rows taken from the lines after it only
HeaderIsLine(lines, i) ==
    IF tables = <<>> THEN TRUE
    ELSE /\ tables[1].headers = _extract_headers(lines[i])
         /\ tables[1].table_type = TypeOrDefault(_determine_table_type(lines[i]))
         /\ Len(tables[1].rows) <= Len(lines) - i

\* C25: if a line of the section matches a known header shape, the header is
\* the first such line from the top and the heuristic detector is not
\* consulted, even when an earlier line satisfies its token-count rule: a
\* known shape on the last line leaves no row, so no table.
C25_ExplicitHeaderFirst ==
    LET Holds(lines) ==
            \A i \in 1..Len(lines) :
                (HasHeaderShape(lines, i) /\ \A j \in 1..(i - 1) : ~HasHeaderShape(lines, j)) =>
                    /\ HeaderIsLine(lines, i)
                    /\ i = Len(lines) => tables = <<>>
    IN  pc = "sectioned" => Holds(LinesOf(text))

\* a section whose first line satisfies the heuristic rule and whose fourth
\* line has a known header shape, returned with that line as its header
C25_Witness ==
    LET Reached(lines) ==
            /\ Len(lines) > 4
            /\ SatisfiesHeuristic(lines, 1)
            /\ HasHeaderShape(lines, 4)
            /\ \A j \in 1..3 : ~HasHeaderShape(lines, j)
            /\ tables # <<>>
            /\ tables[1].headers = _extract_headers(lines[4])
    IN  pc = "sectioned" /\ Reached(LinesOf(text))
----------------------------------------------------------------------------
(* Properties of concurrent invocations *)

\* what the invocation of frame f returns when it runs alone
AloneResult(f) ==
    IF f.op = "extract" THEN extract_all_entities(f.text)
    ELSE detect_and_extract_tables(f.text)

\* C16: when several invocations of extract_all_entities and
\* detect_and_extract_tables run concurrently on shared instances, under every
\* interleaving each invocation returns what it returns when it runs alone,
\* and no step writes the pattern sets (patterns, header_patterns,
\* row_patterns).
C16_NoInterference ==
    /\ patterns = InitPatterns
    /\ header_patterns = InitHeaderPatterns
    /\ row_patterns = InitRowPatterns
    /\ \A t \in DOMAIN threads :
          threads[t].done => threads[t].result = AloneResult(threads[t])

\* an extraction has returned its entities while a detection on another text,
\* begun before that return, holds a table and has a section left
C16_Witness ==
    \E t, u \in DOMAIN threads :
        /\ threads[t].op = "extract" /\ threads[t].done /\ Len(threads[t].result) = 3
        /\ threads[u].op = "detect" /\ ~threads[u].done
        /\ threads[u].text # threads[t].text
        /\ Len(threads[u].acc) = 1
        /\ threads[u].step <= Len(threads[u].sections)

----------------------------------------------------------------------------
(* Properties of the category extractors *)

\* s reads as a number: digits, with at most one point after the first digit
IsNumeric(s) ==
    /\ s # <<>> /\ s # None
    /\ s[1] \in Digit
    /\ \A i \in 1..Len(s) : s[i] \in Digit \cup {"."}
    /\ Cardinality({i \in 1..Len(s) : s[i] = "."}) <= 1

\* s without its white space
Unspaced(s) == SelectSeq(s, LAMBDA c : c \notin Space)

\* C17: every voltage entity's value is the numeric voltage the recognizer
\* captured, and its tolerance metadata is present only when a '± <n>%'
\* tolerance was captured, for all three voltage recognizers, the
\* '<IDENT> = <number> V' form included.
C17_VoltageValue ==
    EntitiesExtracted =>
        \A k \in 1..Len(entities) :
            entities[k].entity_type = "voltage" =>
                /\ IsNumeric(entities[k].value)
                /\ entities[k].metadata.voltage = entities[k].value
                /\ "tolerance" \in DOMAIN entities[k].metadata =>
                      Contains(Unspaced(text), entities[k].metadata.tolerance)

\* a pin id: a decimal number, or a capital letter followed by digits
IsPinId(s) ==
    /\ s # <<>>
    /\ s[1] \in Digit \cup Upper
    /\ Len(s) = 1 => s[1] \in Digit
    /\ \A i \in 2..Len(s) : s[i] \in Digit

\* '\n<FUNC> on pin <n>' for TX and 3, the last of PinRests
FuncOnPin == <<"\n","T","X"," ","o","n"," ","p","i","n"," ","3">>

\* C18: every pin recognizer maps its two captures to (pin id, function): for
\* a match of the '<FUNC> on pin <n>' form as for the 'Pin <id> = <FUNC>'
\* forms, the entity name is 'Pin <pin id>', the value is the function, and
\* metadata pin_number is the pin id.
C18_PinCaptures ==
    EntitiesExtracted =>
        /\ \A k \in 1..Len(entities) :
              entities[k].entity_type = "pin" =>
                  /\ IsPinId(entities[k].metadata.pin_number)
                  /\ entities[k].name = <<"P","i","n"," ">> \o entities[k].metadata.pin_number
                  /\ entities[k].value # <<>>
                  /\ entities[k].value[1] \in Upper \cup {"_"}
        /\ (\E n \in PinNums, func \in PinFuncs : text = PinText(n, func, FuncOnPin)) =>
              \E k \in 1..Len(entities) :
                  /\ entities[k].entity_type = "pin"
                  /\ entities[k].name = <<"P","i","n"," ","3">>
                  /\ entities[k].value = <<"T","X">>
                  /\ entities[k].metadata.pin_number = <<"3">>


\* the offset of the first digit of s, 0 when s has none
FirstDigit(s) ==
    IF \E i \in 1..Len(s) : s[i] \in Digit
    THEN CHOOSE i \in 1..Len(s) : s[i] \in Digit /\ \A j \in 1..(i - 1) : s[j] \notin Digit
    ELSE 0

\* s holds one number, and no letter comes before it: every match of a
\* quantity recognizer in s starts at that number, and every cue phrase of s
\* lies at or after the start of the match
CueOnlyAfterMatch(s) ==
    LET d == FirstDigit(s)
    IN  /\ d > 0
        /\ \A j \in 1..(d - 1) : s[j] \notin Upper \cup Lower
        /\ \A i \in d..Len(s) :
              s[i] \in Digit => \A j \in d..i : s[j] \in Digit \cup {"."}

DefaultQuantityName ==
    [voltage   |-> <<"V","o","l","t","a","g","e"," ","S","p","e","c","i","f","i","c","a","t","i","o","n">>,
     frequency |-> <<"F","r","e","q","u","e","n","c","y"," ","S","p","e","c","i","f","i","c","a","t","i","o","n">>,
     current   |-> <<"C","u","r","r","e","n","t"," ","S","p","e","c","i","f","i","c","a","t","i","o","n">>]

\* C19: the cue phrase that names a voltage, frequency or current entity lies
\* entirely before the start of the match in the text: when the only cue
\* phrases of the text are at or after the match, the entity gets the default
\* name of its category, whatever the offset of the match.
C19_CueBeforeMatch ==
    (EntitiesExtracted /\ CueOnlyAfterMatch(text)) =>
        \A k \in 1..Len(entities) :
            entities[k].entity_type \in DOMAIN DefaultQuantityName =>
                entities[k].name = DefaultQuantityName[entities[k].entity_type]

\* s holds a bit range: two bit indices joined by '-' or ':'
HasBitRange(s) ==
    \E i \in 1..(Len(s) - 2) :
        /\ s[i] \in Digit
        /\ s[i + 1] \in {"-", ":"}
        /\ s[i + 2] \in Digit

IsRangeName(name) ==
    /\ Len(name) >= 5
    /\ SubSeq(name, 1, 5) = <<"B","i","t","s","[">>

BitValueText == <<"B","i","t"," ","3"," ","="," ","1"," ","="," ","E","N">>

\* C20: a bit field entity is named 'Bits[start:end]' only when the match is a
\* range form; every single-bit form, 'Bit <n> = <0|1> = <NAME>' included, is
\* named 'Bit <n>' with metadata bit = n and value NAME.
C20_SingleBitName ==
    EntitiesExtracted =>
        /\ \A k \in 1..Len(entities) :
              entities[k].entity_type = "bitfield" =>
                  IF IsRangeName(entities[k].name)
                  THEN HasBitRange(entities[k].context)
                  ELSE /\ "bit" \in DOMAIN entities[k].metadata
                       /\ entities[k].name = <<"B","i","t"," ">> \o entities[k].metadata.bit
        /\ text = BitValueText =>
              \E k \in 1..Len(entities) :
                  /\ entities[k].entity_type = "bitfield"
                  /\ entities[k].name = <<"B","i","t"," ","3">>
                  /\ entities[k].value = <<"E","N">>
                  /\ entities[k].metadata = [bit |-> <<"3">>]

\* the key of row_patterns written for the rows of a typed table
RowPatternOf(table_type) ==
    CASE table_type = pin_table       -> pin_row
      [] table_type = register_table  -> register_row
      [] table_type = spec_table      -> spec_row
      [] table_type = bit_field_table -> bit_field_row

\* the cells the row pattern called name captures on the line, <<>> when the
\* pattern does not match it
CapturedBy(name, line) ==
    LET CellsOf(ms) == IF ms = <<>> THEN <<>> ELSE Groups(ms[1], line)
    IN  CellsOf(MatchAt(CompiledRow(name), line, 1))

\* C21: in a table of type pin_table (register_table, spec_table,
\* bit_field_table), a line that matches the row pattern of that type is
\* extracted by that pattern: its cells are the captures of the pattern
\* (integer, identifier, free text for a pin row).
C21_TypedRowPattern ==
    (pc = "rowed" /\ cells.table_type # generic_table) =>
        LET captured == CapturedBy(RowPatternOf(cells.table_type), text)
        IN  captured # <<>> => cells.columns = captured

\* the offsets of text[sp.from:sp.to].strip() in the text
TrimmedSpan(s, sp) ==
    LET Trim(slice) ==
            [from |-> sp.from + (Len(slice) - Len(LStrip(slice))),
             to   |-> sp.to - (Len(slice) - Len(RStrip(slice)))]
    IN  Trim(Slice(s, sp.from, sp.to))

\* the offsets of the sections returned on the marker path: the slices that
\* are not blank, trimmed
ReturnedSpans(s, spans) ==
    LET kept == SelectSeq(spans, LAMBDA sp : Strip(Slice(s, sp.from, sp.to)) # <<>>)
    IN  [i \in 1..Len(kept) |-> TrimmedSpan(s, kept[i])]

\* _split_into_sections has returned the slices between the markers
OnMarkerPath == pc = "sliced" /\ Len(cells.marked) >= 2

\* C22: the sections returned on the marker path are pairwise non-overlapping
\* slices of the text: no character position belongs to two sections,
\* whatever the interleaving of 'Table N:', 'Figure N:' and horizontal rules.
C22_DisjointSections ==
    OnMarkerPath =>
        LET rs == ReturnedSpans(text, cells.marked)
        IN  /\ Len(rs) = Len(cells.sections)
            /\ \A i \in 1..Len(rs) : cells.sections[i] = Slice(text, rs[i].from, rs[i].to)
            /\ \A i, j \in 1..Len(rs) :
                  i < j => (rs[i].to <= rs[j].from \/ rs[j].to <= rs[i].from)

\* C23: the sections returned appear in the order of their position in the
\* text: of two sections, the one that starts earlier in the text comes first
\* in the list, whatever the interleaving of the three marker kinds.
C23_SectionsInTextOrder ==
    OnMarkerPath =>
        LET rs == ReturnedSpans(text, cells.marked)
        IN  \A i, j \in 1..Len(rs) : rs[i].from < rs[j].from => i < j

\* the number of slices of the marker splitting that are not blank
NonBlank(s, spans) ==
    Cardinality({i \in 1..Len(spans) : Strip(Slice(s, spans[i].from, spans[i].to)) # <<>>})

\* C24: _split_into_sections falls back to the paragraphs between blank lines
\* exactly when the marker splitting yields fewer than 2 sections that are not
\* empty after trimming; blank slices do not count towards the 2.
C24_FallbackOnNonBlankCount ==
    pc = "sliced" =>
        cells.sections =
            IF NonBlank(text, cells.marked) < 2
            THEN StripAll(SplitOn(<<"\n","\n">>, text))
            ELSE StripAll([i \in 1..Len(cells.marked) |->
                              Slice(text, cells.marked[i].from, cells.marked[i].to)])

RECURSIVE LocatedFrom(_, _, _, _)
\* the cells cols[k], cols[k+1], ... are substrings of the line that follow
\* each other from offset from on without overlapping
LocatedFrom(line, cols, k, from) ==
    \/ k > Len(cols)
    \/ \E p \in from..(Len(line) - Len(cols[k])) :
          /\ Slice(line, p, p + Len(cols[k])) = cols[k]
          /\ LocatedFrom(line, cols, k + 1, p + Len(cols[k]))

\* the row returned is the one built by the pattern scan: neither the split
\* on runs of spaces nor the split on tabs gives expected_cols parts, and the
\* scan does
ReturnedByScan ==
    /\ pc = "split"
    /\ Len(ReSplit(TwoSpaces, Strip(text))) # cells.expected_cols
    /\ Len(SplitOn(<<"\t">>, Strip(text))) # cells.expected_cols
    /\ Len(PatternScan(text)) = cells.expected_cols

\* C26: a row that _intelligent_split builds by pattern scan and returns has
\* cells that are pairwise non-overlapping substrings of the line in
\* left-to-right order: no character of the line contributes to two cells,
\* lines with a decimal number such as '1.5' included.
C26_ScanCellsDisjoint ==
    ReturnedByScan =>
        /\ \A k \in 1..Len(cells.columns) : cells.columns[k] # <<>>
        /\ LocatedFrom(text, cells.columns, 1, 0)

\* C27: every match of a timing recognizer yields a timing entity that carries
\* the captured value and unit; in particular a match of 'Timing = <value><unit>'
\* or 'Delay = <value><unit>' gives an entity with that value and unit.
C27_TimingForms ==
    EntitiesExtracted =>
        /\ \A pm \in Range(MatchesOf(patterns.timing, text)) :
              \E k \in 1..Len(entities) :
                  /\ entities[k].entity_type = "timing"
                  /\ entities[k].value \in Range(Groups(pm.m, text))
                  /\ entities[k].unit \in Range(Groups(pm.m, text))
        /\ \A w \in TimingWords, v \in TimingValues, g \in {<<>>, <<" ">>}, u \in TimingUnits :
              text = TimingText(w, v, g, u) =>
                  \E k \in 1..Len(entities) :
                      /\ entities[k].entity_type = "timing"
                      /\ entities[k].value = v
                      /\ entities[k].unit = u
                      /\ entities[k].metadata = [time_value |-> v, time_unit |-> u]

\* every character of s is a hex digit
IsHex(s) == s # <<>> /\ \A i \in 1..Len(s) : s[i] \in HexD

\* C28: the metadata address of every register entity is '0x' followed only
\* by hex digits, and a named register is named by the captured identifier,
\* also for '<NAME> register = 0x<hex>' when NAME contains a digit.
C28_RegisterAddress ==
    EntitiesExtracted =>
        /\ \A k \in 1..Len(entities) :
              entities[k].entity_type = "register" =>
                  /\ Len(entities[k].metadata.address) > 2
                  /\ SubSeq(entities[k].metadata.address, 1, 2) = <<"0","x">>
                  /\ IsHex(SubSeq(entities[k].metadata.address, 3,
                                  Len(entities[k].metadata.address)))
        /\ \A n \in DigitRegNames, h \in RegisterHexes :
              text = RegisterWordText(n, h) =>
                  \E k \in 1..Len(entities) :
                      /\ entities[k].entity_type = "register"
                      /\ entities[k].name = n
                      /\ entities[k].metadata.address = <<"0","x">> \o UpperStr(h)

\* the paragraphs of the chunks, chunk after chunk
ParagraphsOfChunks(chunks) ==
    Flatten([i \in 1..Len(chunks) |-> SplitOn(ParagraphBreak, chunks[i])])

\* C30: segment_into_chunks loses and reorders nothing: for every text and
\* chunk_size the paragraphs of the chunks, chunk after chunk, are the
\* paragraphs of the text in their order, each whole and in one chunk, and the
\* chunks joined with a blank line are the text.
C30_ChunksKeepText ==
    pc = "chunked" =>
        /\ ParagraphsOfChunks(cells.chunks) = SplitOn(ParagraphBreak, text)
        /\ Join(ParagraphBreak, cells.chunks) = text

\* a text cut into several chunks, one of which is a single paragraph of more
\* words than chunk_size
C30_Witness ==
    /\ pc = "chunked"
    /\ Len(cells.chunks) >= 2
    /\ \E i \in 1..Len(cells.chunks) :
          /\ Len(Split(cells.chunks[i])) > cells.chunk_size
          /\ Len(SplitOn(ParagraphBreak, cells.chunks[i])) = 1

\* the sum of the counts of a per-type counter
RECURSIVE SumOver(_, _)
SumOver(by_type, keys) ==
    IF keys = {} THEN 0
    ELSE LET key == CHOOSE k \in keys : TRUE
         IN  by_type[key] + SumOver(by_type, keys \ {key})

\* C29: after any sequence of process_text_file calls on one DatasetProcessor
\* the per-type counters agree with the totals: the counts of
\* stats['entities_by_type'] add up to stats['total_entities'] and those of
\* stats['tables_by_type'] to stats['total_tables'].
C29_CountersAgree ==
    /\ SumOver(stats.entities_by_type, DOMAIN stats.entities_by_type) = stats.total_entities
    /\ SumOver(stats.tables_by_type, DOMAIN stats.tables_by_type) = stats.total_tables
====
